---- MODULE Spec2Model ----
(***************************************************************************)
(* Model of the policy-enforced execution supervisor of pi-replicant       *)
(* (extensions/replicant/subproc): the tool-call policy checker, the       *)
(* policy hook installed into the session, and runReplicantSubprocess.     *)
(*                                                                         *)
(* Texts are sequences of one-character strings, paths are sequences of    *)
(* path segments (POSIX), the session runtime is the environment.          *)
(***************************************************************************)
EXTENDS Integers, Sequences, FiniteSets, TLC

(* ------------------------------ bounds -------------------------------- *)

\* largest maxTurns / maxToolCalls option a run is started with
MaxTurnsBound == 2
MaxToolCallsBound == 2
\* tool calls one assistant message may carry
MaxCallsPerTurn == 2
\* output ceilings handed to truncateHead (scaled down)
MaxFinalTextLines == 2
MaxFinalTextBytes == 4

(* ------------------------------- paths -------------------------------- *)

NoField == [present |-> FALSE]

\* a path string: leading '@', surrounding blanks, absolute or not, segments
MkPath(at, pad, abs, segs) ==
  [present |-> TRUE, at |-> at, pad |-> pad, abs |-> abs, segs |-> segs]

Plain(abs, segs) == MkPath(FALSE, FALSE, abs, segs)

\* segments whose text starts with the two characters ".."
DotDotPrefixed == {"..", "..x"}

\* String.trim() followed by replace(/^@/, "")
normalizeToolPath(p) == Plain(p.abs, p.segs)

RECURSIVE NormalizeSegs(_, _)
\* path.normalize on a segment list: "." dropped, ".." pops (kept at the root)
NormalizeSegs(acc, segs) ==
  IF segs = << >> THEN acc
  ELSE LET s == Head(segs) IN
       IF s = "." THEN NormalizeSegs(acc, Tail(segs))
       ELSE IF s = ".."
            THEN NormalizeSegs(IF acc = << >> THEN acc ELSE SubSeq(acc, 1, Len(acc) - 1),
                               Tail(segs))
            ELSE NormalizeSegs(Append(acc, s), Tail(segs))

\* path.resolve(cwd, p): the absolute segment list
pathResolve(cwd, p) ==
  IF p.abs THEN NormalizeSegs(<< >>, p.segs) ELSE NormalizeSegs(cwd, p.segs)

RECURSIVE CommonLen(_, _)
CommonLen(a, b) ==
  IF a = << >> \/ b = << >> \/ Head(a) # Head(b) THEN 0
  ELSE 1 + CommonLen(Tail(a), Tail(b))

\* path.relative(from, to) for two absolute, normalised paths
pathRelative(from, to) ==
  LET k == CommonLen(from, to)
  IN  [i \in 1..(Len(from) - k) |-> ".."] \o SubSeq(to, k + 1, Len(to))

\* mutant: the test for a leading ".." is missing
isWithinPath_NoParentTest(targetPath, rootPath) ==
  LET relative == pathRelative(rootPath, targetPath)
      isAbsolute == FALSE
  IN  relative = << >> \/ ~isAbsolute

\* path.relative never yields an absolute path on POSIX
isWithinPath(targetPath, rootPath) ==
  LET relative == pathRelative(rootPath, targetPath)
      isAbsolute == FALSE
  IN  relative = << >> \/ (~(Head(relative) \in DotDotPrefixed) /\ ~isAbsolute)

\* mutant: the test for an absolute pattern is missing
hasUnsafeGlobSegments_NoAbsolute(pattern) ==
  IF pattern.segs = << >> /\ ~pattern.abs THEN FALSE
  ELSE \E i \in 1..Len(pattern.segs) : pattern.segs[i] = ".."

\* a glob pattern is modelled like a path: absolute flag and '/'-segments
hasUnsafeGlobSegments(pattern) ==
  IF pattern.segs = << >> /\ ~pattern.abs THEN FALSE
  ELSE IF pattern.abs THEN TRUE
  ELSE \E i \in 1..Len(pattern.segs) : pattern.segs[i] = ".."

resolveScope(cwd, scope) ==
  [cwd |-> cwd,
   allowedRoots |-> [i \in 1..Len(scope.allowedRoots) |-> pathResolve(cwd, scope.allowedRoots[i])],
   allowedFiles |-> [i \in 1..Len(scope.allowedFiles) |-> pathResolve(cwd, scope.allowedFiles[i])]]

(* --------------------------- policy checker --------------------------- *)

PathTools == {"read", "grep", "find", "ls"}

NoViolation == [kind |-> "none"]

TurnBudgetViolation(turnIndex, maxT) ==
  [kind |-> "turn_budget",
   humanTurn |-> IF turnIndex + 1 < maxT THEN turnIndex + 1 ELSE maxT,
   max |-> maxT]

ToolBudgetViolation(toolCalls, maxCalls) ==
  [kind |-> "tool_call_budget", count |-> toolCalls, max |-> maxCalls]

PatternViolation(toolName, pattern) ==
  [kind |-> "pattern", tool |-> toolName, pattern |-> pattern]

PathViolation(toolName, rawPath, scope) ==
  [kind |-> "path", tool |-> toolName, rawPath |-> rawPath,
   roots |-> scope.allowedRoots, files |-> scope.allowedFiles]

\* toolInput.path, else toolInput.file_path, else "."
RawPathOf(input) ==
  IF input.path.present THEN input.path
  ELSE IF input.file_path.present THEN input.file_path
  ELSE Plain(FALSE, <<".">>)

ResolvedPathOf(input, scope) == pathResolve(scope.cwd, normalizeToolPath(RawPathOf(input)))

\* mutant: the pattern and glob tests come before the test for an open scope
ScopeViolation_PatternFirst(toolName, input, scope) ==
  IF ~(toolName \in PathTools) THEN NoViolation
  ELSE IF toolName = "find" /\ input.pattern.present /\ hasUnsafeGlobSegments(input.pattern)
       THEN PatternViolation(toolName, input.pattern)
  ELSE IF toolName = "grep" /\ input.glob.present /\ hasUnsafeGlobSegments(input.glob)
       THEN PatternViolation(toolName, input.glob)
  ELSE IF Len(scope.allowedRoots) = 0 /\ Len(scope.allowedFiles) = 0 THEN NoViolation
  ELSE LET resolvedPath == ResolvedPathOf(input, scope)
           allowedByRoot == \E i \in 1..Len(scope.allowedRoots) :
                               isWithinPath(resolvedPath, scope.allowedRoots[i])
           allowedByFile == \E i \in 1..Len(scope.allowedFiles) :
                               resolvedPath = scope.allowedFiles[i]
       IN  IF allowedByRoot \/ allowedByFile THEN NoViolation
           ELSE PathViolation(toolName, RawPathOf(input), scope)

\* the scope rules of getToolCallPolicyViolation, reached with both budgets left
ScopeViolation(toolName, input, scope) ==
  IF ~(toolName \in PathTools) THEN NoViolation
  ELSE IF Len(scope.allowedRoots) = 0 /\ Len(scope.allowedFiles) = 0 THEN NoViolation
  ELSE IF toolName = "find" /\ input.pattern.present /\ hasUnsafeGlobSegments(input.pattern)
       THEN PatternViolation(toolName, input.pattern)
  ELSE IF toolName = "grep" /\ input.glob.present /\ hasUnsafeGlobSegments(input.glob)
       THEN PatternViolation(toolName, input.glob)
  ELSE LET resolvedPath == ResolvedPathOf(input, scope)
           allowedByRoot == \E i \in 1..Len(scope.allowedRoots) :
                               isWithinPath(resolvedPath, scope.allowedRoots[i])
           allowedByFile == \E i \in 1..Len(scope.allowedFiles) :
                               resolvedPath = scope.allowedFiles[i]
       IN  IF allowedByRoot \/ allowedByFile THEN NoViolation
           ELSE PathViolation(toolName, RawPathOf(input), scope)

\* mutant: the tool-call budget is tested with > instead of >=
getToolCallPolicyViolation_LateBudget(toolName, input, turnIndex, toolCalls, maxT, maxCalls, scope) ==
  IF turnIndex >= maxT - 1 THEN TurnBudgetViolation(turnIndex, maxT)
  ELSE IF toolCalls > maxCalls THEN ToolBudgetViolation(toolCalls, maxCalls)
  ELSE ScopeViolation(toolName, input, scope)

\* mutant: the turn budget is tested with maxTurns instead of maxTurns - 1
getToolCallPolicyViolation_TurnOneLate(toolName, input, turnIndex, toolCalls, maxT, maxCalls, scope) ==
  IF turnIndex >= maxT THEN TurnBudgetViolation(turnIndex, maxT)
  ELSE IF toolCalls >= maxCalls THEN ToolBudgetViolation(toolCalls, maxCalls)
  ELSE ScopeViolation(toolName, input, scope)

\* mutant: the scope rules are tested before the tool-call budget
getToolCallPolicyViolation_ScopeFirst(toolName, input, turnIndex, toolCalls, maxT, maxCalls, scope) ==
  IF turnIndex >= maxT - 1 THEN TurnBudgetViolation(turnIndex, maxT)
  ELSE IF ScopeViolation(toolName, input, scope) # NoViolation
       THEN ScopeViolation(toolName, input, scope)
  ELSE IF toolCalls >= maxCalls THEN ToolBudgetViolation(toolCalls, maxCalls)
  ELSE NoViolation

getToolCallPolicyViolation(toolName, input, turnIndex, toolCalls, maxT, maxCalls, scope) ==
  IF turnIndex >= maxT - 1 THEN TurnBudgetViolation(turnIndex, maxT)
  ELSE IF toolCalls >= maxCalls THEN ToolBudgetViolation(toolCalls, maxCalls)
  ELSE ScopeViolation(toolName, input, scope)

(* -------------------------------- texts ------------------------------- *)

Blank == {" ", "\n"}

RECURSIVE TrimLeft(_)
TrimLeft(t) == IF t # << >> /\ Head(t) \in Blank THEN TrimLeft(Tail(t)) ELSE t

RECURSIVE TrimRight(_)
TrimRight(t) ==
  IF t # << >> /\ t[Len(t)] \in Blank THEN TrimRight(SubSeq(t, 1, Len(t) - 1)) ELSE t

\* String.trim()
Trim(t) == TrimRight(TrimLeft(t))

TextPart(t) == [type |-> "text", text |-> t]
ToolCallPart == [type |-> "toolCall", text |-> << >>]

RECURSIVE JoinTextParts(_)
JoinTextParts(content) ==
  IF content = << >> THEN << >>
  ELSE (IF Head(content).type = "text" THEN Head(content).text ELSE << >>)
         \o JoinTextParts(Tail(content))

NoMessage == [role |-> "none"]

extractAssistantText(message) ==
  IF message = NoMessage \/ message.role # "assistant" THEN << >>
  ELSE JoinTextParts(message.content)

\* a field that holds a string, or is not a string at all
Absent == "<absent>"
NoText == [present |-> FALSE, text |-> << >>]
SomeText(t) == [present |-> TRUE, text |-> t]

(* what the session may say *)
Contents ==
  { <<ToolCallPart>>,
    <<TextPart(<<" ">>)>>,
    <<TextPart(<<"a">>)>>,
    <<TextPart(<<"b">>), ToolCallPart, TextPart(<<"\n", "c", "\n", "d">>)>> }

StopReasons == {"stop", "toolUse", "error", "aborted", Absent}

ErrorMessages == {NoText, SomeText(<<" ">>), SomeText(<<"e">>)}

AssistantMessages ==
  { [role |-> "assistant", content |-> c, stopReason |-> s, errorMessage |-> e] :
      c \in Contents, s \in StopReasons, e \in ErrorMessages }

SessionMessages ==
  { m \in AssistantMessages :
      /\ (m.errorMessage.present => m.stopReason = "error")
      /\ (m.stopReason \in {"error", "aborted"} =>
            m.content \in {<<ToolCallPart>>, <<TextPart(<<"a">>)>>}) }

AbortedMessage ==
  [role |-> "assistant", content |-> << >>, stopReason |-> "aborted", errorMessage |-> NoText]

ToolResultMessage ==
  [role |-> "toolResult", content |-> <<TextPart(<<"r">>)>>, stopReason |-> Absent,
   errorMessage |-> NoText]

(* ------------------------- truncateHead (output) ---------------------- *)

RECURSIVE SplitLines(_, _)
\* String.split("\n"): acc is the line being read
SplitLines(acc, t) ==
  IF t = << >> THEN <<acc>>
  ELSE IF Head(t) = "\n" THEN <<acc>> \o SplitLines(<< >>, Tail(t))
  ELSE SplitLines(Append(acc, Head(t)), Tail(t))

RECURSIVE JoinLines(_)
JoinLines(lines) ==
  IF lines = << >> THEN << >>
  ELSE IF Len(lines) = 1 THEN lines[1]
  ELSE lines[1] \o <<"\n">> \o JoinLines(Tail(lines))

RECURSIVE TakeLines(_, _, _, _, _)
\* the loop of truncateHead: whole lines while both ceilings hold
TakeLines(lines, i, out, bytes, limits) ==
  IF i > Len(lines) \/ i > limits.maxLines THEN out
  ELSE LET lineBytes == Len(lines[i]) + (IF i > 1 THEN 1 ELSE 0)
       IN  IF bytes + lineBytes > limits.maxBytes THEN out
           ELSE TakeLines(lines, i + 1, Append(out, lines[i]), bytes + lineBytes, limits)

\* mutant: the byte ceiling is not looked at
truncateHead_LinesOnly(content, limits) ==
  LET lines == SplitLines(<< >>, content)
  IN  IF Len(lines) <= limits.maxLines
      THEN [content |-> content, truncated |-> FALSE]
      ELSE [content |-> JoinLines(SubSeq(lines, 1, limits.maxLines)), truncated |-> TRUE]

truncateHead(content, limits) ==
  LET lines == SplitLines(<< >>, content)
  IN  IF Len(lines) <= limits.maxLines /\ Len(content) <= limits.maxBytes
      THEN [content |-> content, truncated |-> FALSE]
      ELSE IF Len(lines[1]) > limits.maxBytes
      THEN [content |-> << >>, truncated |-> TRUE]
      ELSE [content |-> JoinLines(TakeLines(lines, 1, << >>, 0, limits)), truncated |-> TRUE]

NoOutputText == <<"(", "n", "o", ")">>
TruncationMarker == <<"\n", "\n", "[", "t", "]">>

(* ------------------------- options of a run --------------------------- *)

Cwd == <<"w">>

OpenScope == [allowedRoots |-> << >>, allowedFiles |-> << >>]

\* scope option of RunReplicantSubprocessOptions, before resolveScope
ScopeOptions ==
  { OpenScope,
    [allowedRoots |-> <<Plain(FALSE, <<"r">>)>>, allowedFiles |-> <<Plain(TRUE, <<"w", "f">>)>>] }

ToolInput(p, fp, pat, g) == [path |-> p, file_path |-> fp, pattern |-> pat, glob |-> g]

Glob(abs, segs) == [present |-> TRUE, abs |-> abs, segs |-> segs]

PathOnly(p) == ToolInput(p, NoField, NoField, NoField)

\* the tool calls a session may request
ToolCalls ==
  { [toolName |-> "read", input |-> PathOnly(Plain(FALSE, <<"r", "a">>))],
    [toolName |-> "read", input |-> PathOnly(Plain(FALSE, <<"r", "..", "x">>))],
    [toolName |-> "read", input |-> PathOnly(MkPath(TRUE, TRUE, FALSE, <<"r">>))],
    [toolName |-> "ls",   input |-> ToolInput(NoField, Plain(FALSE, <<"f">>), NoField, NoField)],
    [toolName |-> "find", input |-> ToolInput(Plain(FALSE, <<"r">>), NoField,
                                              Glob(FALSE, <<"..", "*">>), NoField)],
    [toolName |-> "bash", input |-> PathOnly(Plain(TRUE, <<"etc">>))] }

NoCall == [toolName |-> "none"]

(* ------------------------------- state -------------------------------- *)

VARIABLES
  maxTurns,        \* effectiveMaxTurns
  maxToolCalls,    \* effectiveMaxToolCalls
  scope,           \* the resolved scope of the policy extension
  hasSignal,       \* options.signal was given
  signalFired,     \* signal.aborted
  pc,              \* where runReplicantSubprocess stands
  details,         \* ReplicantSubprocessDetails
  policyState,     \* ReplicantPolicyState
  abortedBySignal,
  finalText,
  promptError,
  resources,       \* heartbeat timer, subscription, abort listener, session disposal
  abortCalls,      \* session.abort() by onAbort, ctx.abort() by the policy hook
  result,          \* what the run returned or threw
  sp,              \* where the session's agent loop stands
  sessTurn,        \* turnIndex of the session's current turn
  callsThisTurn,   \* tool calls of the current assistant message already handled
  sessAborting,    \* the session has seen an abort request while running
  curCall,         \* the tool call being handled
  hookResult,      \* what the policy hook answered for curCall
  logLast,         \* last assistant message of session.state.messages
  lastObserved,    \* history: text of the assistant message the supervisor looked at last,
                   \* the turn it looked in and where (event, closing event, log)
  options,         \* ToolCallPolicyInput of a direct call of getToolCallPolicyViolation
  verdicts,        \* what the direct calls returned, in order
  events,          \* details.events
  detailsMessage,  \* details.message, the status line handed to onUpdate
  delivered,       \* history: every tool event the subscribe callback was given
  beat,            \* history: the ticks of the heartbeat timer and how many of them emitted
  request,         \* options of resolveRepoWithOffworld: task, repoHint, ctx.hasUI
  rpc,             \* where one resolution stands (the await it is suspended at)
  locals,          \* its local variables: selectedRepo, searchCandidates, show, ...
  commands,        \* history: the argument lists handed to pi.exec("ow", ...) and the exit
                   \* codes it resolved with, in order
  prompts,         \* history: the ctx.ui prompts opened and how they were answered
  markers,         \* history: for each map entry looked up, whether its clone path held
                   \* git metadata at that moment
  clones,          \* file system: the directories that hold git metadata
  resolved,        \* what the resolution returned or threw
  owArgs,          \* argument list of a direct call of runOw
  owResult         \* what that call did

vars ==
  << maxTurns, maxToolCalls, scope, hasSignal, signalFired, pc, details, policyState,
     abortedBySignal, finalText, promptError, resources, abortCalls, result, sp, sessTurn,
     callsThisTurn, sessAborting, curCall, hookResult, logLast, lastObserved,
     options, verdicts, events, detailsMessage, delivered, beat,
     request, rpc, locals, commands, prompts, markers, clones, resolved, owArgs, owResult >>

\* the direct calls of the policy checker (PolicySpec)
checkerVars == << options, verdicts >>

\* the status line and the event log of the run record (StatusSpec); the other
\* specifications follow a run without them
statusVars == << events, detailsMessage, delivered, beat >>

\* one resolution of a repository (ResolveSpec)
resolverVars == << request, rpc, locals, commands, prompts, markers, clones, resolved >>

\* a direct call of runOw (OwSpec)
owVars == << owArgs, owResult >>

resolveVars == << resolverVars, owVars >>

configVars == << maxTurns, maxToolCalls, scope, hasSignal >>

sessVars == << sp, sessTurn, callsThisTurn, sessAborting, curCall, hookResult, logLast >>

\* the state of a run of runReplicantSubprocess
runVars ==
  << configVars, signalFired, pc, details, policyState, abortedBySignal, finalText,
     promptError, resources, abortCalls, result, sessVars, lastObserved >>

\* last turn index the session is followed to: with maxTurns <= MaxTurnsBound a run
\* is followed at least one turn past its final budgeted turn (index maxTurns - 1)
TurnCap == MaxTurnsBound

TerminalPhases == {"done", "error", "aborted"}

NoResult == [kind |-> "none"]

NoOptions == [toolName |-> "none"]

CheckerIdle == options = NoOptions /\ verdicts = << >>

NoBeat == [ticks |-> 0, emitted |-> 0]

StatusIdle ==
  /\ events = << >> /\ detailsMessage = "starting subagent" /\ delivered = << >>
  /\ beat = NoBeat

NoRequest == [task |-> << >>]

NoLocals == [selectedRepo |-> NoText]

NoArgs == <<"<none>">>

ResolverIdle ==
  /\ request = NoRequest /\ rpc = "idle" /\ locals = NoLocals /\ commands = << >>
  /\ prompts = << >> /\ markers = << >> /\ clones = {} /\ resolved = NoResult

OwIdle == owArgs = NoArgs /\ owResult = NoResult

RunInit ==
  /\ maxTurns \in 1..MaxTurnsBound
  /\ maxToolCalls \in 1..MaxToolCallsBound
  /\ scope \in { resolveScope(Cwd, o) : o \in ScopeOptions }
  /\ hasSignal \in BOOLEAN
  /\ signalFired \in (IF hasSignal THEN BOOLEAN ELSE {FALSE})
  /\ pc = "start"
  /\ details = [phase |-> "booting", toolCalls |-> 0, toolErrors |-> 0, turns |-> 0,
                stopReason |-> Absent, errorMessage |-> NoText, exitCode |-> -1,
                finalTextTruncated |-> FALSE]
  /\ policyState = [turnIndex |-> 0, toolCalls |-> 0,
                    violation |-> NoViolation, turnBudgetBlocked |-> NoViolation]
  /\ abortedBySignal = FALSE
  /\ finalText = << >>
  /\ promptError = NoText
  /\ resources = [heartbeat |-> FALSE, subscribed |-> FALSE, listening |-> FALSE,
                  session |-> "none"]
  /\ abortCalls = [session |-> 0, ctx |-> 0]
  /\ result = NoResult
  /\ sp = "none"
  /\ sessTurn = 0
  /\ callsThisTurn = 0
  /\ sessAborting = FALSE
  /\ curCall = NoCall
  /\ hookResult = "none"
  /\ logLast = NoMessage
  /\ lastObserved = [text |-> << >>, turn |-> 0, at |-> "none"]

Init == RunInit /\ CheckerIdle /\ StatusIdle /\ ResolverIdle /\ OwIdle

(* ----------------------- supervisor: callbacks ------------------------ *)

\* n + 1; a saturating run stops counting at cap
Inc(n, cap, saturate) == IF saturate /\ n >= cap THEN n ELSE n + 1

DetailsCap == (TurnCap + 1) * MaxCallsPerTurn

\* mutant: onAbort leaves the session alone
onAbort_NoSessionAbort ==
  /\ abortedBySignal' = TRUE
  /\ details' = [details EXCEPT !.phase = "aborted"]
  /\ UNCHANGED << abortCalls, sessAborting >>

\* onAbort: the flag, the phase and session.abort()
onAbort ==
  /\ abortedBySignal' = TRUE
  /\ details' = [details EXCEPT !.phase = "aborted"]
  /\ abortCalls' = [abortCalls EXCEPT !.session = @ + 1]
  /\ sessAborting' = (sessAborting \/ pc = "prompting")

\* mutant: texts are accumulated
LatestText_Accumulate(current, text) == current \o text

\* if (text) finalText = text
LatestText(current, text) == IF text # << >> THEN text ELSE current

Observe(text, at) == [text |-> text, turn |-> sessTurn, at |-> at]

\* subscribe callback, message_end branch
OnMessageEnd(message, at) ==
  IF message.role = "assistant"
  THEN LET text == extractAssistantText(message) IN
       /\ finalText' = LatestText(finalText, text)
       /\ details' =
            [details EXCEPT
               !.stopReason = IF message.stopReason # Absent THEN message.stopReason ELSE @,
               !.errorMessage = IF message.errorMessage.present
                                   /\ Trim(message.errorMessage.text) # << >>
                                THEN SomeText(Trim(message.errorMessage.text)) ELSE @,
               !.phase = "writing"]
       /\ lastObserved' = Observe(text, at)
  ELSE UNCHANGED << finalText, details, lastObserved >>

(* --------------------------- supervisor: boot ------------------------- *)

\* the session factory throws: nothing was created, finally has nothing to release
BootFail ==
  /\ pc = "start"
  /\ pc' = "thrown"
  /\ result' = [kind |-> "thrown", error |-> [type |-> "factory"]]
  /\ UNCHANGED << configVars, checkerVars, resolveVars, statusVars,
                  signalFired, details, policyState, abortedBySignal, finalText,
                  promptError, resources, abortCalls, sessVars, lastObserved >>

\* mutant: the listener is attached without looking at signal.aborted
signalAborted_Unchecked == FALSE

\* signal && signal.aborted, when the session has been created
signalAborted == hasSignal /\ signalFired

\* factory resolved: signal wiring, heartbeat, subscribe, session.prompt issued
Boot ==
  /\ pc = "start"
  /\ pc' = "prompting"
  /\ sp' = "idle"
  /\ IF signalAborted
     THEN /\ onAbort
          /\ resources' = [heartbeat |-> TRUE, subscribed |-> TRUE, listening |-> FALSE,
                           session |-> "live"]
     ELSE /\ resources' = [heartbeat |-> TRUE, subscribed |-> TRUE, listening |-> hasSignal,
                           session |-> "live"]
          /\ UNCHANGED << abortedBySignal, details, abortCalls, sessAborting >>
  /\ UNCHANGED << configVars, checkerVars, resolveVars, statusVars,
                  signalFired, policyState, finalText, promptError, result,
                  sessTurn, callsThisTurn, curCall, hookResult, logLast, lastObserved >>

\* the caller's AbortSignal fires; the listener (once) runs onAbort when attached
SignalFire ==
  /\ hasSignal /\ ~signalFired
  /\ signalFired' = TRUE
  /\ IF resources.listening
     THEN /\ onAbort
          /\ resources' = [resources EXCEPT !.listening = FALSE]
     ELSE UNCHANGED << abortedBySignal, details, abortCalls, sessAborting, resources >>
  /\ UNCHANGED << configVars, checkerVars, resolveVars, statusVars,
                  pc, policyState, finalText, promptError, result, sp, sessTurn,
                  callsThisTurn, curCall, hookResult, logLast, lastObserved >>

(* ------------------------ session: the agent loop --------------------- *)

\* turn_start: the policy extension records the turn index
TurnStart ==
  /\ pc = "prompting" /\ sp \in {"idle", "between"}
  /\ ~sessAborting
  /\ sessTurn <= TurnCap
  /\ sp' = "streaming"
  /\ policyState' = [policyState EXCEPT !.turnIndex = sessTurn]
  /\ UNCHANGED << configVars, checkerVars, resolveVars, statusVars,
                  signalFired, pc, details, abortedBySignal, finalText,
                  promptError, resources, abortCalls, result, sessTurn, callsThisTurn,
                  sessAborting, curCall, hookResult, logLast, lastObserved >>

MessageUpdate ==
  /\ pc = "prompting" /\ sp = "streaming"
  /\ details' = [details EXCEPT !.phase = "writing"]
  /\ UNCHANGED << configVars, checkerVars, resolveVars, statusVars,
                  signalFired, pc, policyState, abortedBySignal, finalText,
                  promptError, resources, abortCalls, result, sessVars, lastObserved >>

\* the assistant message of the turn ends: pushed to the log, message_end delivered
\* (the event of a message that ends the loop may be missed)
MessageEndFrom(messages) ==
  /\ pc = "prompting" /\ sp = "streaming"
  /\ \E m \in messages, emitted \in BOOLEAN :
       /\ emitted \/ m.stopReason # "toolUse"
       /\ IF emitted THEN OnMessageEnd(m, "message_end")
          ELSE UNCHANGED << finalText, details, lastObserved >>
       /\ logLast' = m
       /\ sp' = (IF m.stopReason = "toolUse" THEN "tools" ELSE "closing")
  /\ callsThisTurn' = 0
  /\ UNCHANGED << configVars, checkerVars, resolveVars, statusVars,
                  signalFired, pc, policyState, abortedBySignal, promptError,
                  resources, abortCalls, result, sessTurn, sessAborting, curCall, hookResult >>

MessageEnd == MessageEndFrom(SessionMessages)

ToolExecutionStartStep(saturate) ==
  /\ pc = "prompting" /\ sp = "tools"
  /\ callsThisTurn < MaxCallsPerTurn
  /\ \E call \in ToolCalls : curCall' = call
  /\ sp' = "tool_started"
  /\ details' = [details EXCEPT !.phase = "exploring",
                                !.toolCalls = Inc(@, DetailsCap, saturate)]
  /\ UNCHANGED << configVars, checkerVars, resolveVars, statusVars,
                  signalFired, pc, policyState, abortedBySignal, finalText,
                  promptError, resources, abortCalls, result, sessTurn, callsThisTurn,
                  sessAborting, hookResult, logLast, lastObserved >>

ToolExecutionStart == ToolExecutionStartStep(FALSE)

\* mutant: the final turn is taken to start one turn later
blockedOnFinalTurn_OneLate(turnIndex, maxT) == turnIndex >= maxT

\* mutant: the hook never takes a violation for one of the final turn
blockedOnFinalTurn_Never(turnIndex, maxT) == FALSE

blockedOnFinalTurn(turnIndex, maxT) == turnIndex >= maxT - 1

\* mutant: a later violation overwrites the recorded one
FirstWins_Overwrite(recorded, violation) == violation

\* recorded ?? violation
FirstWins(recorded, violation) == IF recorded # NoViolation THEN recorded ELSE violation

\* the tool_call handler of createPolicyExtension
ToolCallHook ==
  /\ pc = "prompting" /\ sp = "tool_started"
  /\ sp' = "tool_hooked"
  /\ LET violation == getToolCallPolicyViolation(curCall.toolName, curCall.input,
                         policyState.turnIndex, policyState.toolCalls,
                         maxTurns, maxToolCalls, scope)
     IN  IF violation # NoViolation
         THEN IF blockedOnFinalTurn(policyState.turnIndex, maxTurns)
              THEN /\ policyState' =
                        [policyState EXCEPT !.turnBudgetBlocked = FirstWins(@, violation)]
                   /\ hookResult' = "blocked"
                   /\ UNCHANGED << abortCalls, sessAborting >>
              ELSE /\ policyState' =
                        [policyState EXCEPT !.violation = FirstWins(@, violation)]
                   /\ abortCalls' = [abortCalls EXCEPT !.ctx = @ + 1]
                   /\ sessAborting' = TRUE
                   /\ hookResult' = "blocked"
         ELSE /\ policyState' = [policyState EXCEPT !.toolCalls = @ + 1]
              /\ hookResult' = "allowed"
              /\ UNCHANGED << abortCalls, sessAborting >>
  /\ UNCHANGED << configVars, checkerVars, resolveVars, statusVars,
                  signalFired, pc, details, abortedBySignal, finalText,
                  promptError, resources, result, sessTurn, callsThisTurn, curCall, logLast,
                  lastObserved >>

ToolExecutionEndStep(saturate) ==
  /\ pc = "prompting" /\ sp = "tool_hooked"
  /\ \E isError \in (IF hookResult = "blocked" THEN {TRUE} ELSE BOOLEAN) :
       details' = [details EXCEPT !.phase = "exploring",
                                  !.toolErrors = IF isError THEN Inc(@, DetailsCap, saturate)
                                                 ELSE @]
  /\ sp' = "tool_ended"
  /\ curCall' = NoCall
  /\ hookResult' = "none"
  /\ callsThisTurn' = callsThisTurn + 1
  /\ UNCHANGED << configVars, checkerVars, resolveVars, statusVars,
                  signalFired, pc, policyState, abortedBySignal, finalText,
                  promptError, resources, abortCalls, result, sessTurn, sessAborting, logLast,
                  lastObserved >>

ToolExecutionEnd == ToolExecutionEndStep(FALSE)

\* message_end of the tool result message: not an assistant message
ToolResultMessageEnd ==
  /\ pc = "prompting" /\ sp = "tool_ended"
  /\ OnMessageEnd(ToolResultMessage, "message_end")
  /\ sp' = "tools"
  /\ UNCHANGED << configVars, checkerVars, resolveVars, statusVars,
                  signalFired, pc, policyState, abortedBySignal, promptError,
                  resources, abortCalls, result, sessTurn, callsThisTurn, sessAborting,
                  curCall, hookResult, logLast >>

TurnEndStep(saturate) ==
  /\ pc = "prompting"
  /\ \/ sp = "closing"
     \/ sp = "tools" /\ callsThisTurn >= 1
  /\ details' = [details EXCEPT !.turns = Inc(@, TurnCap + 1, saturate)]
  /\ sessTurn' = Inc(sessTurn, TurnCap, saturate)
  /\ sp' = (IF sp = "tools" /\ ~sessAborting THEN "between" ELSE "agent_end")
  /\ UNCHANGED << configVars, checkerVars, resolveVars, statusVars,
                  signalFired, pc, policyState, abortedBySignal, finalText,
                  promptError, resources, abortCalls, result, callsThisTurn, sessAborting,
                  curCall, hookResult, logLast, lastObserved >>

TurnEnd == TurnEndStep(FALSE)

\* an aborted session winds down, with or without a closing aborted message
AbortStop ==
  /\ pc = "prompting" /\ sessAborting
  /\ sp \notin {"agent_end", "failed"}
  /\ \E withMessage \in BOOLEAN :
       IF withMessage
       THEN OnMessageEnd(AbortedMessage, "closing") /\ logLast' = AbortedMessage
       ELSE UNCHANGED << finalText, details, lastObserved, logLast >>
  /\ sp' = "agent_end"
  /\ curCall' = NoCall
  /\ hookResult' = "none"
  /\ UNCHANGED << configVars, checkerVars, resolveVars, statusVars,
                  signalFired, pc, policyState, abortedBySignal, promptError,
                  resources, abortCalls, result, sessTurn, callsThisTurn, sessAborting >>

\* session.prompt resolves
PromptResolve ==
  /\ pc = "prompting" /\ sp = "agent_end"
  /\ pc' = "settled"
  /\ promptError' = NoText
  /\ UNCHANGED << configVars, checkerVars, resolveVars, statusVars,
                  signalFired, details, policyState, abortedBySignal, finalText,
                  resources, abortCalls, result, sessVars, lastObserved >>

\* session.prompt rejects: at once, while a message streams, or when the loop ends
PromptReject ==
  /\ pc = "prompting" /\ sp \in {"idle", "streaming", "agent_end"}
  /\ pc' = "settled"
  /\ promptError' = SomeText(<<"p">>)
  /\ sp' = "failed"
  /\ curCall' = NoCall
  /\ hookResult' = "none"
  /\ UNCHANGED << configVars, checkerVars, resolveVars, statusVars,
                  signalFired, details, policyState, abortedBySignal, finalText,
                  resources, abortCalls, result, sessTurn, callsThisTurn, sessAborting,
                  logLast, lastObserved >>

(* ---------------------- supervisor: after the prompt ------------------ *)

ViolationText(v) == [present |-> TRUE, violation |-> v]

Thrown(error) == [kind |-> "thrown", error |-> error]

OutputLimits == [maxLines |-> MaxFinalTextLines, maxBytes |-> MaxFinalTextBytes]

\* mutant: the cancellation flag is tested before the policy violation
TerminalRule_AbortFirst(violation, aborted, promptFailed, text, turnBudgetBlocked, stopReason) ==
  IF aborted THEN 2
  ELSE IF violation # NoViolation THEN 1
  ELSE IF promptFailed THEN 3
  ELSE IF Trim(text) = << >> /\ turnBudgetBlocked # NoViolation THEN 4
  ELSE IF stopReason = "error" THEN 5
  ELSE IF stopReason = "aborted" THEN 6
  ELSE 7

\* mutant: the stop reason is tested before the prompt error
TerminalRule_StopReasonFirst(violation, aborted, promptFailed, text, turnBudgetBlocked, stopReason) ==
  IF violation # NoViolation THEN 1
  ELSE IF aborted THEN 2
  ELSE IF stopReason = "error" THEN 5
  ELSE IF stopReason = "aborted" THEN 6
  ELSE IF promptFailed THEN 3
  ELSE IF Trim(text) = << >> /\ turnBudgetBlocked # NoViolation THEN 4
  ELSE 7

\* mutant: the final text is tested without trim()
TerminalRule_NoTrim(violation, aborted, promptFailed, text, turnBudgetBlocked, stopReason) ==
  IF violation # NoViolation THEN 1
  ELSE IF aborted THEN 2
  ELSE IF promptFailed THEN 3
  ELSE IF text = << >> /\ turnBudgetBlocked # NoViolation THEN 4
  ELSE IF stopReason = "error" THEN 5
  ELSE IF stopReason = "aborted" THEN 6
  ELSE 7

\* which branch of the terminal decision is taken: the first whose test holds
TerminalRule(violation, aborted, promptFailed, text, turnBudgetBlocked, stopReason) ==
  IF violation # NoViolation THEN 1
  ELSE IF aborted THEN 2
  ELSE IF promptFailed THEN 3
  ELSE IF Trim(text) = << >> /\ turnBudgetBlocked # NoViolation THEN 4
  ELSE IF stopReason = "error" THEN 5
  ELSE IF stopReason = "aborted" THEN 6
  ELSE 7

\* mutant: a cancelled run keeps the phase it has when the prompt call settles
TerminalDecision_KeepPhase(d, text) ==
  LET rule == TerminalRule(policyState.violation, abortedBySignal, promptError.present, text,
                           policyState.turnBudgetBlocked, d.stopReason)
      truncated == truncateHead(IF text # << >> THEN text ELSE NoOutputText, OutputLimits)
      finalOutput == IF truncated.truncated THEN truncated.content \o TruncationMarker
                     ELSE truncated.content
  IN  CASE rule = 1 ->
             [details |-> [d EXCEPT !.phase = "error",
                                    !.errorMessage = ViolationText(policyState.violation),
                                    !.exitCode = 1],
              result |-> Thrown([type |-> "violation", message |-> policyState.violation])]
        [] rule = 2 ->
             [details |-> [d EXCEPT !.exitCode = 1],
              result |-> Thrown([type |-> "aborted_by_signal"])]
        [] rule = 3 ->
             [details |-> [d EXCEPT !.phase = "error", !.errorMessage = promptError,
                                    !.exitCode = 1],
              result |-> Thrown([type |-> "prompt", message |-> promptError.text])]
        [] rule = 4 ->
             [details |-> [d EXCEPT !.phase = "error",
                                    !.errorMessage = ViolationText(policyState.turnBudgetBlocked),
                                    !.exitCode = 1],
              result |-> Thrown([type |-> "violation",
                                 message |-> policyState.turnBudgetBlocked])]
        [] rule = 5 ->
             [details |-> [d EXCEPT !.phase = "error", !.exitCode = 1],
              result |-> Thrown([type |-> "stop_reason", reason |-> "error",
                                 message |-> d.errorMessage])]
        [] rule = 6 ->
             [details |-> [d EXCEPT !.phase = "aborted", !.exitCode = 1],
              result |-> Thrown([type |-> "stop_reason", reason |-> "aborted",
                                 message |-> d.errorMessage])]
        [] OTHER ->
             [details |-> [d EXCEPT !.finalTextTruncated = truncated.truncated,
                                    !.phase = "done", !.exitCode = 0],
              result |-> [kind |-> "returned", finalText |-> finalOutput]]

\* the terminal decision: phase, error message, exit code and what is thrown or returned
TerminalDecision(d, text) ==
  LET rule == TerminalRule(policyState.violation, abortedBySignal, promptError.present, text,
                           policyState.turnBudgetBlocked, d.stopReason)
      truncated == truncateHead(IF text # << >> THEN text ELSE NoOutputText, OutputLimits)
      finalOutput == IF truncated.truncated THEN truncated.content \o TruncationMarker
                     ELSE truncated.content
  IN  CASE rule = 1 ->
             [details |-> [d EXCEPT !.phase = "error",
                                    !.errorMessage = ViolationText(policyState.violation),
                                    !.exitCode = 1],
              result |-> Thrown([type |-> "violation", message |-> policyState.violation])]
        [] rule = 2 ->
             [details |-> [d EXCEPT !.phase = "aborted", !.exitCode = 1],
              result |-> Thrown([type |-> "aborted_by_signal"])]
        [] rule = 3 ->
             [details |-> [d EXCEPT !.phase = "error", !.errorMessage = promptError,
                                    !.exitCode = 1],
              result |-> Thrown([type |-> "prompt", message |-> promptError.text])]
        [] rule = 4 ->
             [details |-> [d EXCEPT !.phase = "error",
                                    !.errorMessage = ViolationText(policyState.turnBudgetBlocked),
                                    !.exitCode = 1],
              result |-> Thrown([type |-> "violation",
                                 message |-> policyState.turnBudgetBlocked])]
        [] rule = 5 ->
             [details |-> [d EXCEPT !.phase = "error", !.exitCode = 1],
              result |-> Thrown([type |-> "stop_reason", reason |-> "error",
                                 message |-> d.errorMessage])]
        [] rule = 6 ->
             [details |-> [d EXCEPT !.phase = "aborted", !.exitCode = 1],
              result |-> Thrown([type |-> "stop_reason", reason |-> "aborted",
                                 message |-> d.errorMessage])]
        [] OTHER ->
             [details |-> [d EXCEPT !.finalTextTruncated = truncated.truncated,
                                    !.phase = "done", !.exitCode = 0],
              result |-> [kind |-> "returned", finalText |-> finalOutput]]

\* mutant: the abort listener is left on the signal
Finally_KeepListener(r) ==
  [heartbeat |-> FALSE, subscribed |-> FALSE, listening |-> r.listening,
   session |-> IF r.session = "live" THEN "disposed" ELSE r.session]

\* finally: clearInterval, unsubscribe, session.dispose, removeEventListener
Finally(r) ==
  [heartbeat |-> FALSE, subscribed |-> FALSE, listening |-> FALSE,
   session |-> IF r.session = "live" THEN "disposed" ELSE r.session]

\* the continuation of the prompt call: message log check, decision, finally
Decide ==
  /\ pc = "settled"
  /\ LET lastAssistant == logLast
         seen == lastAssistant # NoMessage
         logText == extractAssistantText(lastAssistant)
         text == IF seen THEN LatestText(finalText, logText) ELSE finalText
         d == IF seen
              THEN [details EXCEPT
                      !.stopReason = IF lastAssistant.stopReason # Absent
                                     THEN lastAssistant.stopReason ELSE @,
                      !.errorMessage = IF lastAssistant.errorMessage.present
                                          /\ Trim(lastAssistant.errorMessage.text) # << >>
                                       THEN SomeText(Trim(lastAssistant.errorMessage.text))
                                       ELSE @]
              ELSE details
         outcome == TerminalDecision(d, text)
     IN  /\ finalText' = text
         /\ lastObserved' = (IF seen THEN Observe(logText, "log") ELSE lastObserved)
         /\ details' = outcome.details
         /\ result' = outcome.result
         /\ pc' = (IF outcome.result.kind = "returned" THEN "returned" ELSE "thrown")
  /\ resources' = Finally(resources)
  /\ UNCHANGED << configVars, checkerVars, resolveVars, statusVars,
                  signalFired, policyState, abortedBySignal, promptError,
                  abortCalls, sessVars >>

(* --------------------------- specifications --------------------------- *)

Next ==
  \/ BootFail
  \/ Boot
  \/ SignalFire
  \/ TurnStart
  \/ MessageUpdate
  \/ MessageEnd
  \/ ToolExecutionStart
  \/ ToolCallHook
  \/ ToolExecutionEnd
  \/ ToolResultMessageEnd
  \/ TurnEnd
  \/ AbortStop
  \/ PromptResolve
  \/ PromptReject
  \/ Decide

Spec == Init /\ [][Next]_vars

(* a run nobody cancels, followed past any number of turns: the session's turn
   index and the run's counters stop counting at their caps, which are turn
   indices at or past maxTurns - 1, where the policy hook answers alike *)

LiveInit ==
  /\ Init
  /\ ~hasSignal
  /\ maxTurns = MaxTurnsBound
  /\ maxToolCalls = MaxToolCallsBound
  /\ ~(Len(scope.allowedRoots) = 0)

ToolExecutionStartLive == ToolExecutionStartStep(TRUE)

ToolExecutionEndLive == ToolExecutionEndStep(TRUE)

TurnEndLive == TurnEndStep(TRUE)

LiveNext ==
  \/ BootFail
  \/ Boot
  \/ TurnStart
  \/ MessageUpdate
  \/ MessageEnd
  \/ ToolExecutionStartLive
  \/ ToolCallHook
  \/ ToolExecutionEndLive
  \/ ToolResultMessageEnd
  \/ TurnEndLive
  \/ AbortStop
  \/ PromptResolve
  \/ PromptReject
  \/ Decide

\* one step of the agent loop that the session takes of its own accord
SessionStep ==
  \/ TurnStart
  \/ MessageEnd
  \/ ToolExecutionStartLive
  \/ ToolCallHook
  \/ ToolExecutionEndLive
  \/ ToolResultMessageEnd
  \/ TurnEndLive
  \/ AbortStop
  \/ PromptResolve

\* the event loop runs every continuation that is ready; the session keeps going
LiveFairness ==
  /\ WF_vars(BootFail \/ Boot \/ Decide)
  /\ WF_vars(SessionStep)

LiveSpec == LiveInit /\ [][LiveNext]_vars /\ LiveFairness

(* ------------- a run that answers in one turn (AnswerSpec) ------------ *)

\* the session answers its first turn with a text of any shape up to a length:
\* followed for the final text of the run and what is returned for it

MaxAnswerLen == 6

RECURSIVE TextsOfLen(_)
TextsOfLen(n) ==
  IF n = 0 THEN {<< >>}
  ELSE { Append(t, c) : t \in TextsOfLen(n - 1), c \in {"a", "\n"} }

AnswerTexts == UNION { TextsOfLen(n) : n \in 0..MaxAnswerLen }

AnswerMessages ==
  { [role |-> "assistant", content |-> <<TextPart(t)>>, stopReason |-> "stop",
     errorMessage |-> NoText] : t \in AnswerTexts }

AnswerInit ==
  /\ Init
  /\ ~hasSignal
  /\ maxTurns = MaxTurnsBound /\ maxToolCalls = MaxToolCallsBound
  /\ scope = resolveScope(Cwd, OpenScope)

MessageEndAnswer == MessageEndFrom(AnswerMessages)

AnswerNext ==
  \/ Boot
  \/ TurnStart
  \/ MessageEndAnswer
  \/ TurnEnd
  \/ PromptResolve
  \/ Decide

AnswerSpec == AnswerInit /\ [][AnswerNext]_vars

(* --------- the event log and the status line (StatusSpec) ------------- *)

\* the subscribe callback is followed for the whole run record, the event log and
\* the status line included, over a stream of tool events longer than the log
\* holds; the session is taken as a source of events and nothing more

MAX_EVENTS_TO_KEEP == 120

\* events delivered beyond MAX_EVENTS_TO_KEEP
MaxOverflow == 3

\* leading events of the stream that may be of any shape
MaxVariedEvents == 3

ToolEvent(type, toolName, isError) == [type |-> type, toolName |-> toolName, isError |-> isError]

\* tool events of any shape: toolName a string or not, isError set on an end event
AnyToolEvents ==
  { ToolEvent("tool_execution_start", n, FALSE) : n \in {"read", Absent} }
    \cup { ToolEvent("tool_execution_end", n, e) : n \in {"read", Absent}, e \in BOOLEAN }

\* what the session delivers next: anything at first, then read calls that succeed
NextToolEvents ==
  IF Len(delivered) < MaxVariedEvents THEN AnyToolEvents
  ELSE IF Len(delivered) % 2 = 0 THEN {ToolEvent("tool_execution_start", "read", FALSE)}
  ELSE {ToolEvent("tool_execution_end", "read", FALSE)}

\* Date.now(): the clock is read as the number of the event
Now == Len(delivered) + 1

\* typeof event.toolName === "string" ? event.toolName : "unknown"
EventToolName(event) == IF event.toolName # Absent THEN event.toolName ELSE "unknown"

\* mutant: the newest entry is dropped
ShiftOverflow_Pop(evts) ==
  IF Len(evts) > MAX_EVENTS_TO_KEEP THEN SubSeq(evts, 1, Len(evts) - 1) ELSE evts

\* if (details.events.length > MAX_EVENTS_TO_KEEP) details.events.shift()
ShiftOverflow(evts) == IF Len(evts) > MAX_EVENTS_TO_KEEP THEN Tail(evts) ELSE evts

StatusInit ==
  /\ Init
  /\ ~hasSignal
  /\ maxTurns = MaxTurnsBound /\ maxToolCalls = MaxToolCallsBound
  /\ scope = resolveScope(Cwd, OpenScope)

\* emit("booting in-process session"), then as Boot
BootStatus ==
  /\ pc = "start"
  /\ pc' = "prompting"
  /\ sp' = "idle"
  /\ detailsMessage' = "booting in-process session"
  /\ IF signalAborted
     THEN /\ onAbort
          /\ resources' = [heartbeat |-> TRUE, subscribed |-> TRUE, listening |-> FALSE,
                           session |-> "live"]
     ELSE /\ resources' = [heartbeat |-> TRUE, subscribed |-> TRUE, listening |-> hasSignal,
                           session |-> "live"]
          /\ UNCHANGED << abortedBySignal, details, abortCalls, sessAborting >>
  /\ UNCHANGED << configVars, checkerVars, resolveVars, events, delivered, beat, signalFired,
                  policyState, finalText, promptError, result, sessTurn, callsThisTurn, curCall,
                  hookResult, logLast, lastObserved >>

\* subscribe callback, tool_execution_start branch
OnToolExecutionStart ==
  /\ pc = "prompting" /\ resources.subscribed
  /\ Len(delivered) < MAX_EVENTS_TO_KEEP + MaxOverflow
  /\ \E event \in { e \in NextToolEvents : e.type = "tool_execution_start" } :
       /\ details' = [details EXCEPT !.phase = "exploring", !.toolCalls = @ + 1]
       /\ events' = ShiftOverflow(Append(events,
                        [type |-> "tool_start", toolName |-> EventToolName(event),
                         timestamp |-> Now]))
       /\ detailsMessage' = <<"running", event.toolName>>
       /\ delivered' = Append(delivered, event)
  /\ UNCHANGED << configVars, checkerVars, resolveVars, signalFired, pc, policyState, abortedBySignal,
                  finalText, promptError, resources, abortCalls, result, sessVars,
                  lastObserved, beat >>

\* subscribe callback, tool_execution_end branch
OnToolExecutionEnd ==
  /\ pc = "prompting" /\ resources.subscribed
  /\ Len(delivered) < MAX_EVENTS_TO_KEEP + MaxOverflow
  /\ \E event \in { e \in NextToolEvents : e.type = "tool_execution_end" } :
       /\ details' = [details EXCEPT !.phase = "exploring",
                                     !.toolErrors = IF event.isError THEN @ + 1 ELSE @]
       /\ events' = ShiftOverflow(Append(events,
                        [type |-> "tool_end", toolName |-> EventToolName(event),
                         isError |-> event.isError, timestamp |-> Now]))
       /\ detailsMessage' = <<IF event.isError THEN "tool failed" ELSE "tool finished",
                               event.toolName>>
       /\ delivered' = Append(delivered, event)
  /\ UNCHANGED << configVars, checkerVars, resolveVars, signalFired, pc, policyState, abortedBySignal,
                  finalText, promptError, resources, abortCalls, result, sessVars,
                  lastObserved, beat >>

StatusNext ==
  \/ BootStatus
  \/ OnToolExecutionStart
  \/ OnToolExecutionEnd

StatusSpec == StatusInit /\ [][StatusNext]_vars

(* --------------------- the heartbeat (BeatSpec) ----------------------- *)

\* ticks of the heartbeat timer a run is followed for
MaxTicks == 2

\* mutant: the timer callback does not look at the phase before it emits
Heartbeat_NoTerminalTest ==
  /\ resources.heartbeat
  /\ beat.ticks < MaxTicks
  /\ detailsMessage' = (IF details.phase = "exploring" THEN "exploring codebase"
                        ELSE "waiting for output")
  /\ beat' = [ticks |-> beat.ticks + 1, emitted |-> beat.emitted + 1]
  /\ UNCHANGED << runVars, checkerVars, resolveVars, events, delivered >>

\* the callback of setInterval(..., 1500)
Heartbeat ==
  /\ resources.heartbeat
  /\ beat.ticks < MaxTicks
  /\ IF details.phase \in {"done", "error", "aborted"}
     THEN /\ beat' = [beat EXCEPT !.ticks = @ + 1]
          /\ UNCHANGED detailsMessage
     ELSE /\ detailsMessage' = (IF details.phase = "exploring" THEN "exploring codebase"
                                ELSE "waiting for output")
          /\ beat' = [ticks |-> beat.ticks + 1, emitted |-> beat.emitted + 1]
  /\ UNCHANGED << runVars, checkerVars, resolveVars, events, delivered >>

\* subscribe callback, message_update branch
OnMessageUpdate ==
  /\ pc = "prompting" /\ resources.subscribed
  /\ details' = [details EXCEPT !.phase = "writing"]
  /\ detailsMessage' = "writing findings"
  /\ UNCHANGED << configVars, checkerVars, resolveVars, signalFired, pc, policyState, abortedBySignal,
                  finalText, promptError, resources, abortCalls, result, sessVars,
                  lastObserved, events, delivered, beat >>

\* a run with or without a cancellation signal, fired or not
BeatInit ==
  /\ Init
  /\ maxTurns = MaxTurnsBound /\ maxToolCalls = MaxToolCallsBound
  /\ scope = resolveScope(Cwd, OpenScope)

BeatNext ==
  \/ BootStatus
  \/ SignalFire
  \/ Heartbeat
  \/ OnToolExecutionStart
  \/ OnMessageUpdate

BeatSpec == BeatInit /\ [][BeatNext]_vars

(* ------------ direct calls of the policy checker (PolicySpec) --------- *)

\* the checker is exported and called on its own, as the tests do: a call is
\* followed from its options object to what it returns, twice over

MaxDirectCalls == 2

CheckerTools == PathTools \cup {"bash"}

CheckerPaths ==
  { Plain(FALSE, <<".">>),
    Plain(FALSE, <<"..">>),
    Plain(FALSE, <<"r">>),
    Plain(FALSE, <<"r", "a">>),
    Plain(FALSE, <<"r", "..", "x">>),
    Plain(FALSE, <<"r", "..x">>),
    Plain(FALSE, <<"f">>),
    Plain(TRUE, <<"w", "r", "a">>),
    Plain(TRUE, <<"etc">>),
    MkPath(TRUE, TRUE, FALSE, <<"r">>) }

CheckerGlobs ==
  { Glob(FALSE, <<"*">>),
    Glob(FALSE, <<"..", "*">>),
    Glob(FALSE, <<"a", "..", "*">>),
    Glob(TRUE, <<"w", "r", "*">>) }

\* path and file_path of the input object: none, either, or both
CheckerPathFields ==
  {<<NoField, NoField>>}
    \cup { <<p, NoField>> : p \in CheckerPaths }
    \cup { <<NoField, p>> : p \in CheckerPaths }
    \cup { <<Plain(FALSE, <<"r">>), Plain(TRUE, <<"etc">>)>>,
           <<Plain(TRUE, <<"etc">>), Plain(FALSE, <<"r">>)>> }

\* pattern and glob of the input object: none, or one of them
CheckerGlobFields ==
  {<<NoField, NoField>>}
    \cup { <<g, NoField>> : g \in CheckerGlobs }
    \cup { <<NoField, g>> : g \in CheckerGlobs }

CheckerInputs ==
  { ToolInput(pf[1], pf[2], gf[1], gf[2]) : pf \in CheckerPathFields, gf \in CheckerGlobFields }

CheckerScopeOptions ==
  ScopeOptions \cup
    { [allowedRoots |-> <<Plain(FALSE, <<"r">>)>>, allowedFiles |-> << >>],
      [allowedRoots |-> << >>, allowedFiles |-> <<Plain(TRUE, <<"w", "f">>)>>],
      [allowedRoots |-> <<Plain(FALSE, <<".">>)>>, allowedFiles |-> << >>] }

CheckerOptions ==
  [ toolName : CheckerTools,
    input : CheckerInputs,
    turnIndex : 0..MaxTurnsBound,
    toolCalls : 0..MaxToolCallsBound,
    maxTurns : 1..MaxTurnsBound,
    maxToolCalls : 1..MaxToolCallsBound,
    scope : { resolveScope(Cwd, o) : o \in CheckerScopeOptions } ]

PolicyInit ==
  /\ RunInit
  /\ maxTurns = 1 /\ maxToolCalls = 1 /\ ~hasSignal
  /\ scope = resolveScope(Cwd, OpenScope)
  /\ StatusIdle
  /\ ResolverIdle /\ OwIdle
  /\ options \in CheckerOptions
  /\ verdicts = << >>

\* mutant: the checker counts the call it allows in its own options
CallChecker_Counts ==
  /\ options # NoOptions
  /\ Len(verdicts) < MaxDirectCalls
  /\ LET verdict == getToolCallPolicyViolation(options.toolName, options.input,
                        options.turnIndex, options.toolCalls, options.maxTurns,
                        options.maxToolCalls, options.scope)
     IN  /\ verdicts' = Append(verdicts, verdict)
         /\ options' = IF verdict = NoViolation
                        THEN [options EXCEPT !.toolCalls = @ + 1] ELSE options
  /\ UNCHANGED << runVars, statusVars, resolveVars >>

\* getToolCallPolicyViolation(options): it reads its options and assigns nothing
CallChecker ==
  /\ options # NoOptions
  /\ Len(verdicts) < MaxDirectCalls
  /\ verdicts' = Append(verdicts,
                        getToolCallPolicyViolation(options.toolName, options.input,
                           options.turnIndex, options.toolCalls, options.maxTurns,
                           options.maxToolCalls, options.scope))
  /\ UNCHANGED << options, runVars, statusVars, resolveVars >>

PolicyNext == CallChecker

PolicySpec == PolicyInit /\ [][PolicyNext]_vars

(* ------------------------- repository resolver ------------------------- *)
(* Strings of the resolver are sequences of tokens: a name part ("tanstack",  *)
(* "pacer", ".ts"), a separator ("/", ":"), a blank, or a whole host prefix    *)
(* ("https://github.com/"). The empty string is << >>; an optional string is  *)
(* NoText (undefined) or SomeText(s).                                         *)

MaxCandidates == 7

\* Math.min
Min(a, b) == IF a < b THEN a ELSE b

StripHead(t, heads) == IF t # << >> /\ Head(t) \in heads THEN Tail(t) ELSE t

StripLast(t, lasts) ==
  IF t # << >> /\ t[Len(t)] \in lasts THEN SubSeq(t, 1, Len(t) - 1) ELSE t

\* normalizeRepoHint(repo)
normalizeRepoHint(repo) ==
  IF ~repo.present \/ repo.text = << >> THEN NoText
  ELSE LET trimmed == Trim(repo.text)
       IN  IF trimmed = << >> THEN NoText
           ELSE SomeText(Trim(StripLast(
                  StripHead(StripHead(trimmed, {"https://github.com/", "http://github.com/"}),
                            {"github.com/", "github.com:"}),
                  {".git"})))

GithubPrefixes == {"https://github.com/", "http://github.com/", "github.com/", "github.com:"}

\* what [A-Za-z0-9_.-]+ cannot run over
Separators == Blank \cup GithubPrefixes \cup {"/", ":", "'", "(", ")", ",", ";"}

\* the characters the token pattern accepts before and after an owner/repo token
TokenBefore == Blank \cup {"'", "("}
TokenAfter == Blank \cup {"'", ")", ",", ";", ":"}

PATH_LIKE_OWNER_DENYLIST ==
  {"src", "docs", "doc", "packages", "package", "examples", "example", "test", "tests",
   "lib", "dist", "scripts", "extensions", "apps", "app", "server", "client"}

SourceExtensions ==
  {".ts", ".tsx", ".js", ".jsx", ".mjs", ".cjs", ".json", ".md", ".txt", ".yaml", ".yml",
   ".toml", ".rs", ".go", ".py", ".java", ".kt", ".swift", ".css", ".scss", ".html"}

\* String.toLowerCase(), on the names the tasks use
toLowerCase(w) == IF w = "Src" THEN "src" ELSE w

\* the longest run of name tokens t starts with: [A-Za-z0-9_.-]+ is greedy
RECURSIVE NameRun(_)
NameRun(t) ==
  IF t # << >> /\ Head(t) \notin Separators THEN <<Head(t)>> \o NameRun(Tail(t)) ELSE << >>

NoMatch == [matched |-> FALSE]

\* ([A-Za-z0-9_.-]+\/[A-Za-z0-9_.-]+) at the head of t
MatchOwnerRepo(t) ==
  LET owner == NameRun(t)
      rest == SubSeq(t, Len(owner) + 1, Len(t))
      repo == IF rest # << >> /\ Head(rest) = "/" THEN NameRun(Tail(rest)) ELSE << >>
  IN  IF owner # << >> /\ repo # << >>
      THEN [matched |-> TRUE, owner |-> owner, repo |-> repo,
            after |-> SubSeq(rest, Len(repo) + 2, Len(rest))]
      ELSE NoMatch

\* task.match(github pattern): the first place a host prefix is followed by owner/repo
RECURSIVE GithubMatch(_)
GithubMatch(t) ==
  IF t = << >> THEN NoMatch
  ELSE IF Head(t) \in GithubPrefixes /\ MatchOwnerRepo(Tail(t)).matched
       THEN MatchOwnerRepo(Tail(t))
       ELSE GithubMatch(Tail(t))

\* the loop over task.matchAll(tokenPattern): atStart says whether the token
\* before t is one the pattern accepts (or the start of the task)
RECURSIVE TokenScan(_, _)
TokenScan(t, atStart) ==
  IF t = << >> THEN NoText
  ELSE LET m == MatchOwnerRepo(t)
           hit == atStart /\ m.matched /\ (m.after = << >> \/ Head(m.after) \in TokenAfter)
       IN  IF hit
           THEN IF \/ (Len(m.owner) = 1 /\ toLowerCase(m.owner[1]) \in PATH_LIKE_OWNER_DENYLIST)
                   \/ m.repo[Len(m.repo)] \in SourceExtensions
                THEN TokenScan(m.after, FALSE)
                ELSE SomeText(m.owner \o <<"/">> \o m.repo)
           ELSE TokenScan(Tail(t), Head(t) \in TokenBefore)

\* extractRepoHintFromTask(task)
extractRepoHintFromTask(task) ==
  LET githubMatch == GithubMatch(task)
  IN  IF githubMatch.matched THEN SomeText(githubMatch.owner \o <<"/">> \o githubMatch.repo)
      ELSE TokenScan(task, TRUE)

\* replace(/\s+/g, " ")
RECURSIVE CollapseBlanks(_)
CollapseBlanks(t) ==
  IF t = << >> THEN << >>
  ELSE IF Head(t) \in Blank THEN <<" ">> \o CollapseBlanks(TrimLeft(t))
  ELSE <<Head(t)>> \o CollapseBlanks(Tail(t))

SEARCH_TERM_LENGTH == 120

\* extractSearchTerm(task)
extractSearchTerm(task) ==
  LET collapsed == CollapseBlanks(Trim(task))
  IN  SubSeq(collapsed, 1, Min(SEARCH_TERM_LENGTH, Len(collapsed)))

\* String.split(sep)
RECURSIVE SplitAt(_, _, _)
SplitAt(acc, t, sep) ==
  IF t = << >> THEN <<acc>>
  ELSE IF Head(t) = sep THEN <<acc>> \o SplitAt(<< >>, Tail(t), sep)
  ELSE SplitAt(Append(acc, Head(t)), Tail(t), sep)

\* toRepoSlug(entry)
toRepoSlug(entry) ==
  IF "fullName" \in DOMAIN entry THEN entry.fullName
  ELSE LET q == IF entry.qualifiedName.present THEN entry.qualifiedName.text ELSE << >>
       IN  IF \E i \in 1..Len(q) : q[i] = ":" THEN SplitAt(<< >>, q, ":")[2] ELSE q

\* Array.join(" ")
RECURSIVE JoinArgs(_)
JoinArgs(args) ==
  IF args = << >> THEN << >>
  ELSE IF Len(args) = 1 THEN args[1]
  ELSE args[1] \o <<" ">> \o JoinArgs(Tail(args))

OwAllowlist == {<<"--version">>, <<"map", " ", "show">>, <<"map", " ", "search">>, <<"pull">>}

\* runOw: the head of the argument list that is looked up in the allowlist
OwHead(args) ==
  IF args # << >> /\ args[1] = <<"--version">> THEN <<"--version">>
  ELSE IF args # << >> /\ args[1] = <<"pull">> THEN <<"pull">>
  ELSE JoinArgs(SubSeq(args, 1, Min(2, Len(args))))

\* runOw: whether the command is handed to pi.exec or refused
runOwAllowed(args) == OwHead(args) \in OwAllowlist

VersionArgs == << <<"--version">> >>
ShowArgs(repo) == << <<"map">>, <<"show">>, repo, <<"--json">> >>
SearchArgs(term) == << <<"map">>, <<"search">>, term, <<"--json">> >>

\* buildPullArgs(repo)
buildPullArgs(repo) == << <<"pull">>, repo, <<"--clone-only">> >>

(* the file system *)
ClonePath == <<"/", "clones", "/", "pacer">>
OtherPath == <<"/", "clones", "/", "gone">>
\* the regular files: a reference document, and a file whose name ends in a backslash
RegularFiles == {<<"/", "refs", "/", "pacer", ".md">>, <<"/", "refs", "/", "odd", "\\">>}

\* pathLooksLikeClone(repoPath): a directory with a .git file or directory in it
pathLooksLikeClone(repoPath, fs) == repoPath \in fs

\* pathIsFile(filePath): fs.stat fails for a missing path and for a file path
\* with a trailing separator
pathIsFile(filePath) == filePath \in RegularFiles

endsWith(t, c) == t # << >> /\ t[Len(t)] = c

\* mutant: the reference path is only tested for being a regular file
referenceOk_FileOnly(referencePath) ==
  /\ Len(referencePath) > 0
  /\ pathIsFile(referencePath)

\* referenceOk
referenceOk(referencePath) ==
  /\ Len(referencePath) > 0
  /\ ~endsWith(referencePath, "/")
  /\ ~endsWith(referencePath, "\\")
  /\ pathIsFile(referencePath)

(* what the mapping tool may answer *)
ExitCodes == {0, 1}

Candidate(i) ==
  [fullName |-> <<"o", "/", ToString(i)>>, score |-> IF i = 1 THEN 97 ELSE 11]

\* the answers of map search: no match, one, two or MaxCandidates matches with
\* one dominant score, two matches of equal score (the name of the first a
\* prefix of the name of the second), one match without a name
SearchAnswers ==
  {[i \in 1..n |-> Candidate(i)] : n \in {0, 1, 2, MaxCandidates}}
    \cup {<<[fullName |-> <<"o", "/", "r">>, score |-> 50],
            [fullName |-> <<"o", "/", "r", "-ui">>, score |-> 50]>>,
          <<[fullName |-> << >>, score |-> 50]>>}

QualifiedNames ==
  {NoText, SomeText(<<"github.com", ":", "tanstack", "/", "pacer">>),
   SomeText(<<"tanstack", "/", "pacer">>),
   SomeText(<<"host", ":", "2222", ":", "tanstack", "/", "pacer">>)}

LocalPaths == {NoText, SomeText(<< >>), SomeText(ClonePath), SomeText(OtherPath)}

ReferencePaths ==
  {NoText, SomeText(<< >>), SomeText(<<"/", "refs", "/", "pacer", ".md">>),
   SomeText(<<"/", "refs", "/", "pacer", ".md", "/">>), SomeText(<<"/", "refs">>),
   SomeText(<<"/", "refs", "/">>), SomeText(<<"/", "refs", "/", "none", ".md">>),
   SomeText(<<"/", "refs", "/", "odd", "\\">>)}

\* the entries of map show: every local path with every reference path, and
\* every qualified name
MapEntries ==
  [found : {TRUE}, qualifiedName : {SomeText(<<"github.com", ":", "tanstack", "/", "pacer">>)},
   localPath : LocalPaths, referencePath : ReferencePaths, scope : {NoText}]
    \cup [found : {TRUE}, qualifiedName : QualifiedNames, localPath : {SomeText(ClonePath)},
          referencePath : {SomeText(<<"/", "refs", "/", "pacer", ".md">>)}, scope : {NoText}]
    \cup {[found |-> FALSE, qualifiedName |-> NoText, localPath |-> NoText,
           referencePath |-> NoText, scope |-> NoText],
          [found |-> TRUE, qualifiedName |-> NoText, localPath |-> SomeText(ClonePath),
           referencePath |-> NoText, scope |-> SomeText(<<"global">>)]}

\* no map entry yet
NoEntry ==
  [found |-> FALSE, qualifiedName |-> NoText, localPath |-> NoText,
   referencePath |-> NoText, scope |-> NoText]

(* selectCandidate *)
\* `${c.fullName} (score ${c.score})`
Label(c) == c.fullName \o <<" ", "(score ", ToString(c.score), ")">>

\* picked.replace(/\s+\(score [^)]+\)\s*$/, "")
StripScore(picked) ==
  LET body == TrimRight(picked)
      n == Len(body)
  IN  IF n >= 4 /\ body[n] = ")" /\ body[n - 1] # ")" /\ body[n - 2] = "(score "
              /\ body[n - 3] \in Blank
      THEN TrimRight(SubSeq(body, 1, n - 3))
      ELSE picked

\* candidates.slice(0, Math.min(6, candidates.length))
TopOf(candidates) == SubSeq(candidates, 1, Min(6, Len(candidates)))

\* options.map((option) => option.label): what ctx.ui.select is given
OptionLabels(candidates) ==
  [i \in 1..Len(TopOf(candidates)) |-> Label(TopOf(candidates)[i])]

\* Array.find: the first element that passes the test
FirstWhere(s, Test(_)) ==
  IF \E i \in 1..Len(s) : Test(s[i])
  THEN [found |-> TRUE,
        value |-> s[CHOOSE i \in 1..Len(s) : Test(s[i]) /\ \A j \in 1..(i - 1) : ~Test(s[j])]]
  ELSE [found |-> FALSE]

\* what the user may answer to the selection prompt: nothing, a label offered,
\* a label with another score, a bare name, something else
Picks(candidates) ==
  {NoText, SomeText(<< >>), SomeText(<<"o", "/", "zz">>)}
    \cup {SomeText(Label(candidates[i])) : i \in 1..Len(candidates)}
    \cup {SomeText(candidates[i].fullName \o <<" ", " ", "(score ", "0", ")", " ">>) :
            i \in {1, Len(candidates)}}
    \cup {SomeText(candidates[i].fullName) : i \in {1, Len(candidates)}}

\* mutant: an option is taken for picked when its name begins the answer
SelectPicked_PrefixMatch(top, picked) ==
  IF ~picked.present \/ picked.text = << >> THEN [thrown |-> "repo_unresolved"]
  ELSE LET IsPicked(c) == /\ Len(c.fullName) <= Len(picked.text)
                          /\ SubSeq(picked.text, 1, Len(c.fullName)) = c.fullName
           pickedOption == FirstWhere(top, IsPicked)
       IN  IF pickedOption.found THEN [thrown |-> "", candidate |-> pickedOption.value]
           ELSE [thrown |-> "repo_ambiguous"]

\* selectCandidate, from the answer of ctx.ui.select on
SelectPicked(top, picked) ==
  IF ~picked.present \/ picked.text = << >> THEN [thrown |-> "repo_unresolved"]
  ELSE LET IsPicked(c) == Label(c) = picked.text
           pickedOption == FirstWhere(top, IsPicked)
           pickedRepo == StripScore(picked.text)
           IsRepo(c) == c.fullName = pickedRepo
           matched == FirstWhere(top, IsRepo)
       IN  IF pickedOption.found THEN [thrown |-> "", candidate |-> pickedOption.value]
           ELSE IF matched.found THEN [thrown |-> "", candidate |-> matched.value]
           ELSE [thrown |-> "repo_ambiguous"]

(* the calls of resolveRepoWithOffworld *)
Tasks ==
  {<<"inspect", " ", "tanstack", "/", "pacer", " ", "bootstrap">>,
   <<" ", "inspect", " ", " ", "bootstrap">>,
   <<"read", " ", "Src", "/", "index", ".ts">>,
   <<"see", " ", "src", "/", "lib", " ", "of", " ", "https://github.com/", "tanstack", "/", "pacer">>}

\* params.repo as the host hands it to execute
RawRepos ==
  {NoText, SomeText(<<" ">>), SomeText(<<"tanstack", "/", "pacer">>),
   SomeText(<<"https://github.com/", "tanstack", "/", "pacer", ".git">>),
   SomeText(<<"github.com/">>)}

\* execute: the options it hands to resolveRepoWithOffworld
Requests ==
  {[task |-> t, repoHint |-> normalizeRepoHint(r), hasUI |-> u] :
     t \in Tasks, r \in RawRepos, u \in BOOLEAN}

\* `!s` of an optional string
Falsy(s) == ~s.present \/ s.text = << >>

\* `s ?? ""`
OrEmpty(s) == IF s.present THEN s.text ELSE << >>

StartLocals ==
  [selectedRepo |-> NoText, matches |-> << >>, searchCandidates |-> << >>,
   searchAnswered |-> FALSE, options |-> << >>, picked |-> NoText, show |-> NoEntry,
   effectiveRepo |-> << >>, hasClone |-> FALSE, missingAssets |-> FALSE,
   resolvedFrom |-> "existing"]

ResolveInit ==
  /\ RunInit
  /\ maxTurns = 1 /\ maxToolCalls = 1 /\ ~hasSignal
  /\ scope = resolveScope(Cwd, OpenScope)
  /\ CheckerIdle /\ StatusIdle /\ OwIdle
  /\ request \in Requests
  /\ rpc = "start"
  /\ locals = StartLocals
  /\ commands = << >>
  /\ prompts = << >>
  /\ markers = << >>
  /\ clones \in SUBSET {ClonePath}
  /\ resolved = NoResult

\* where a resolution goes next
Goto(p, l) == [rpc |-> p, locals |-> l, resolved |-> NoResult]

\* throw new ReplicantOffworldError(message, code)
Throw(code, l) == [rpc |-> "thrown", locals |-> l, resolved |-> Thrown([code |-> code])]

Become(next) ==
  /\ rpc' = next.rpc
  /\ locals' = next.locals
  /\ resolved' = next.resolved

\* what pi.exec may resolve to: a failing exit code, output that is not JSON,
\* or one of the given values as JSON
ExecAnswers(values) ==
  {[code |-> 1, parses |-> FALSE], [code |-> 0, parses |-> FALSE]}
    \cup {[code |-> 0, parses |-> TRUE, value |-> v] : v \in values}

\* pi.exec("ow", args, ...) resolved with an exit code
Exec(args, code) == commands' = Append(commands, [args |-> args, code |-> code])

\* ensureOwInstalled, then the choice of the identifier
EnsureOwInstalled ==
  /\ rpc = "start"
  /\ IF ~runOwAllowed(VersionArgs)
     THEN Become(Throw("invalid_map", locals)) /\ UNCHANGED commands
     ELSE \E code \in ExitCodes :
            /\ Exec(VersionArgs, code)
            /\ IF code # 0 THEN Become(Throw("ow_missing", locals))
               ELSE LET selectedRepo == IF request.repoHint.present THEN request.repoHint
                                        ELSE extractRepoHintFromTask(request.task)
                    IN  Become(Goto(IF Falsy(selectedRepo) THEN "search" ELSE "show",
                                    [locals EXCEPT !.selectedRepo = selectedRepo]))
  /\ UNCHANGED << runVars, checkerVars, statusVars, owVars, request, prompts, markers, clones >>

\* mutant: without UI the first (best scored) candidate is taken
SelectStart_TopScore(hasUI, candidates) ==
  IF Len(candidates) = 1 THEN [thrown |-> "", prompt |-> FALSE, candidate |-> candidates[1]]
  ELSE IF hasUI THEN [thrown |-> "", prompt |-> TRUE]
  ELSE [thrown |-> "", prompt |-> FALSE, candidate |-> candidates[1]]

\* mutant: a single candidate is put to the user like any other
SelectStart_AlwaysAsk(hasUI, candidates) ==
  IF hasUI THEN [thrown |-> "", prompt |-> TRUE]
  ELSE [thrown |-> "repo_ambiguous", prompt |-> FALSE]

\* selectCandidate up to its await: the only candidate, the prompt, or the
\* refusal to guess
SelectStart(hasUI, candidates) ==
  IF Len(candidates) = 1 THEN [thrown |-> "", prompt |-> FALSE, candidate |-> candidates[1]]
  ELSE IF hasUI THEN [thrown |-> "", prompt |-> TRUE]
  ELSE [thrown |-> "repo_ambiguous", prompt |-> FALSE]

\* selectedRepo = selected.fullName and the test that follows
Selected(l, candidate) ==
  LET l2 == [l EXCEPT !.selectedRepo = SomeText(candidate.fullName)]
  IN  IF Falsy(l2.selectedRepo) THEN Throw("repo_unresolved", l2) ELSE Goto("show", l2)

\* mapSearch and what follows its answer: no match, one match, or several
MapSearch ==
  /\ rpc = "search"
  /\ LET args == SearchArgs(extractSearchTerm(request.task))
     IN  IF ~runOwAllowed(args)
         THEN Become(Throw("invalid_map", locals)) /\ UNCHANGED << commands, prompts >>
         ELSE \E answer \in ExecAnswers(SearchAnswers) :
                /\ Exec(args, answer.code)
                /\ IF answer.code # 0 \/ ~answer.parses
                   THEN Become(Throw("invalid_map", locals)) /\ UNCHANGED prompts
                   ELSE LET matches == answer.value
                            l == [locals EXCEPT
                                    !.searchAnswered = TRUE,
                                    !.matches = matches,
                                    !.searchCandidates =
                                       [i \in 1..Len(matches) |->
                                          [repo |-> matches[i].fullName,
                                           score |-> matches[i].score]]]
                            start == SelectStart(request.hasUI, matches)
                        IN  IF Len(matches) = 0
                            THEN Become(Throw("repo_unresolved", l)) /\ UNCHANGED prompts
                            ELSE IF start.prompt
                            THEN /\ Become(Goto("select",
                                             [l EXCEPT !.options = OptionLabels(matches)]))
                                 /\ prompts' = Append(prompts, "select")
                            ELSE IF start.thrown # ""
                            THEN Become(Throw(start.thrown, l)) /\ UNCHANGED prompts
                            ELSE Become(Selected(l, start.candidate)) /\ UNCHANGED prompts
  /\ UNCHANGED << runVars, checkerVars, statusVars, owVars, request, markers, clones >>

\* ctx.ui.select resolved: the rest of selectCandidate
Select ==
  /\ rpc = "select"
  /\ \E picked \in Picks(locals.matches) :
       LET choice == SelectPicked(TopOf(locals.matches), picked)
           l == [locals EXCEPT !.picked = picked]
       IN  IF choice.thrown # "" THEN Become(Throw(choice.thrown, l))
           ELSE Become(Selected(l, choice.candidate))
  /\ prompts' = Append(prompts, "select answered")
  /\ UNCHANGED << runVars, checkerVars, statusVars, owVars, request, commands, markers,
                  clones >>

\* mutant: the entry is returned without the final clone check
Finish_Unchecked(l, entry, fs) ==
  LET clonePath == OrEmpty(entry.localPath)
      referencePath == OrEmpty(entry.referencePath)
      cloneOk == TRUE
  IN  IF ~cloneOk THEN Throw("missing_assets", l)
      ELSE [rpc |-> "returned", locals |-> l,
            resolved |->
              [kind |-> "returned",
               repo |-> l.effectiveRepo,
               qualifiedName |-> IF entry.qualifiedName.present THEN entry.qualifiedName.text
                                 ELSE <<"github.com", ":">> \o l.effectiveRepo,
               scope |-> IF entry.scope.present THEN entry.scope.text ELSE <<"unknown">>,
               clonePath |-> clonePath,
               referencePath |-> IF referenceOk(referencePath) THEN referencePath ELSE << >>,
               resolvedFrom |-> l.resolvedFrom,
               searchCandidates |-> l.searchCandidates]]

\* the final checks and the return
Finish(l, entry, fs) ==
  LET clonePath == OrEmpty(entry.localPath)
      referencePath == OrEmpty(entry.referencePath)
      cloneOk == Len(clonePath) > 0 /\ pathLooksLikeClone(clonePath, fs)
  IN  IF ~cloneOk THEN Throw("missing_assets", l)
      ELSE [rpc |-> "returned", locals |-> l,
            resolved |->
              [kind |-> "returned",
               repo |-> l.effectiveRepo,
               qualifiedName |-> IF entry.qualifiedName.present THEN entry.qualifiedName.text
                                 ELSE <<"github.com", ":">> \o l.effectiveRepo,
               scope |-> IF entry.scope.present THEN entry.scope.text ELSE <<"unknown">>,
               clonePath |-> clonePath,
               referencePath |-> IF referenceOk(referencePath) THEN referencePath ELSE << >>,
               resolvedFrom |-> l.resolvedFrom,
               searchCandidates |-> l.searchCandidates]]

\* whether the clone path of a map entry holds git metadata
Marker(entry, fs) == entry.localPath.present /\ entry.localPath.text \in fs

\* mutant: an entry without a usable reference document counts as not cloned
hasCloneOf_WithReference(show, fs) ==
  /\ ~Falsy(show.localPath) /\ pathLooksLikeClone(show.localPath.text, fs)
  /\ referenceOk(OrEmpty(show.referencePath))

\* hasClone = Boolean(show.localPath && (await pathLooksLikeClone(show.localPath)))
hasCloneOf(show, fs) == ~Falsy(show.localPath) /\ pathLooksLikeClone(show.localPath.text, fs)

\* mutant: an entry that is not in the map is pulled
MapShow_PullWhenNotFound ==
  /\ rpc = "show"
  /\ LET args == ShowArgs(locals.selectedRepo.text)
     IN  IF ~runOwAllowed(args)
         THEN Become(Throw("invalid_map", locals)) /\ UNCHANGED << commands, prompts, markers >>
         ELSE \E answer \in ExecAnswers(MapEntries) :
                /\ Exec(args, answer.code)
                /\ IF answer.code # 0 \/ ~answer.parses
                   THEN Become(Throw("invalid_map", locals)) /\ UNCHANGED << prompts, markers >>
                   ELSE LET show == answer.value
                            hasClone == hasCloneOf(show, clones)
                            l == [locals EXCEPT !.show = show,
                                                !.effectiveRepo = toRepoSlug(show),
                                                !.hasClone = hasClone,
                                                !.missingAssets = ~hasClone]
                        IN  /\ markers' = Append(markers, Marker(show, clones))
                            /\ IF ~show.found
                               THEN Become(Goto("pull", [locals EXCEPT !.show = show]))
                                    /\ UNCHANGED prompts
                               ELSE IF hasClone
                               THEN Become(Finish(l, show, clones)) /\ UNCHANGED prompts
                               ELSE IF request.hasUI
                               THEN /\ Become(Goto("confirm", l))
                                    /\ prompts' = Append(prompts, "confirm")
                               ELSE Become(Goto("pull", l)) /\ UNCHANGED prompts
  /\ UNCHANGED << runVars, checkerVars, statusVars, owVars, request, clones >>

\* the first mapShow and what follows: the slug, the clone check, and either
\* the confirmation prompt, the pull, or the final checks
MapShow ==
  /\ rpc = "show"
  /\ LET args == ShowArgs(locals.selectedRepo.text)
     IN  IF ~runOwAllowed(args)
         THEN Become(Throw("invalid_map", locals)) /\ UNCHANGED << commands, prompts, markers >>
         ELSE \E answer \in ExecAnswers(MapEntries) :
                /\ Exec(args, answer.code)
                /\ IF answer.code # 0 \/ ~answer.parses
                   THEN Become(Throw("invalid_map", locals)) /\ UNCHANGED << prompts, markers >>
                   ELSE LET show == answer.value
                            hasClone == hasCloneOf(show, clones)
                            l == [locals EXCEPT !.show = show,
                                                !.effectiveRepo = toRepoSlug(show),
                                                !.hasClone = hasClone,
                                                !.missingAssets = ~hasClone]
                        IN  /\ markers' = Append(markers, Marker(show, clones))
                            /\ IF ~show.found
                               THEN Become(Throw("repo_unresolved", [locals EXCEPT !.show = show]))
                                    /\ UNCHANGED prompts
                               ELSE IF hasClone
                               THEN Become(Finish(l, show, clones)) /\ UNCHANGED prompts
                               ELSE IF request.hasUI
                               THEN /\ Become(Goto("confirm", l))
                                    /\ prompts' = Append(prompts, "confirm")
                               ELSE Become(Goto("pull", l)) /\ UNCHANGED prompts
  /\ UNCHANGED << runVars, checkerVars, statusVars, owVars, request, clones >>

\* mutant: the pull goes ahead whatever the user answers
Confirm_PullAnyway ==
  /\ rpc = "confirm"
  /\ \E ok \in BOOLEAN :
       /\ Become(Goto("pull", locals))
       /\ prompts' = Append(prompts, IF ok THEN "confirm accepted" ELSE "confirm declined")
  /\ UNCHANGED << runVars, checkerVars, statusVars, owVars, request, commands, markers,
                  clones >>

\* ctx.ui.confirm resolved
Confirm ==
  /\ rpc = "confirm"
  /\ \E ok \in BOOLEAN :
       /\ IF ~ok THEN Become(Throw("pull_rejected", locals)) ELSE Become(Goto("pull", locals))
       /\ prompts' = Append(prompts, IF ok THEN "confirm accepted" ELSE "confirm declined")
  /\ UNCHANGED << runVars, checkerVars, statusVars, owVars, request, commands, markers,
                  clones >>

\* mutant: a failed pull is tried again
PullRepo_Retry ==
  /\ rpc = "pull"
  /\ Len(commands) < 6
  /\ LET args == buildPullArgs(locals.effectiveRepo)
     IN  IF ~runOwAllowed(args)
         THEN Become(Throw("invalid_map", locals)) /\ UNCHANGED << commands, clones >>
         ELSE \E code \in ExitCodes, made \in SUBSET {ClonePath} :
                   /\ Exec(args, code)
                   /\ clones' = clones \cup made
                   /\ IF code # 0 THEN Become(Goto("pull", locals))
                      ELSE Become(Goto("reshow", [locals EXCEPT !.resolvedFrom = "pulled"]))
  /\ UNCHANGED << runVars, checkerVars, statusVars, owVars, request, prompts, markers >>

\* pullRepo: the mapping tool may or may not leave a clone behind
PullRepo ==
  /\ rpc = "pull"
  /\ LET args == buildPullArgs(locals.effectiveRepo)
     IN  IF ~runOwAllowed(args)
         THEN Become(Throw("invalid_map", locals)) /\ UNCHANGED << commands, clones >>
         ELSE \E code \in ExitCodes, made \in SUBSET {ClonePath} :
                   /\ Exec(args, code)
                   /\ clones' = clones \cup made
                   /\ IF code # 0 THEN Become(Throw("pull_failed", locals))
                      ELSE Become(Goto("reshow", [locals EXCEPT !.resolvedFrom = "pulled"]))
  /\ UNCHANGED << runVars, checkerVars, statusVars, owVars, request, prompts, markers >>

\* the second mapShow, then the final checks
MapShowAgain ==
  /\ rpc = "reshow"
  /\ LET args == ShowArgs(locals.effectiveRepo)
     IN  IF ~runOwAllowed(args)
         THEN Become(Throw("invalid_map", locals)) /\ UNCHANGED << commands, markers >>
         ELSE \E answer \in ExecAnswers(MapEntries) :
                /\ Exec(args, answer.code)
                /\ IF answer.code # 0 \/ ~answer.parses
                   THEN Become(Throw("invalid_map", locals)) /\ UNCHANGED markers
                   ELSE /\ Become(Finish([locals EXCEPT !.show = answer.value],
                                         answer.value, clones))
                        /\ markers' = Append(markers, Marker(answer.value, clones))
  /\ UNCHANGED << runVars, checkerVars, statusVars, owVars, request, prompts, clones >>

(* the tool's execute, from the resolved repository to the session *)

\* the segment spelled by the tokens between two separators
SegName(tokens) ==
  IF tokens = << >> THEN "."
  ELSE IF Len(tokens) = 1 THEN tokens[1]
  ELSE IF tokens = <<"pacer", ".md">> THEN "pacer.md"
  ELSE "other"

\* a path text as path.resolve reads it: absolute or not, and its segments
ParsePath(t) ==
  LET parts == SplitAt(<< >>, t, "/")
  IN  Plain(t # << >> /\ Head(t) = "/", [i \in 1..Len(parts) |-> SegName(parts[i])])

\* mutant: the clone path is handed over as working directory only
subprocessScope_NoRoots(resolvedRepo) ==
  [allowedRoots |-> << >>,
   allowedFiles |-> IF resolvedRepo.referencePath # << >>
                    THEN <<ParsePath(resolvedRepo.referencePath)>> ELSE << >>]

\* subprocessScope
subprocessScope(resolvedRepo) ==
  [allowedRoots |-> <<ParsePath(resolvedRepo.clonePath)>>,
   allowedFiles |-> IF resolvedRepo.referencePath # << >>
                    THEN <<ParsePath(resolvedRepo.referencePath)>> ELSE << >>]

\* execute after resolveRepoWithOffworld returned: runReplicantSubprocess is
\* called with cwd = clonePath and the scope, and the session factory resolves
\* the scope for its policy extension
CreateSession ==
  /\ rpc = "returned"
  /\ rpc' = "session"
  /\ scope' = resolveScope(pathResolve(Cwd, ParsePath(resolved.clonePath)),
                           subprocessScope(resolved))
  /\ UNCHANGED << maxTurns, maxToolCalls, hasSignal, signalFired, pc, details, policyState,
                  abortedBySignal, finalText, promptError, resources, abortCalls, result,
                  sessVars, lastObserved, checkerVars, statusVars, owVars, request, locals,
                  commands, prompts, markers, clones, resolved >>

ResolveNext ==
  \/ CreateSession
  \/ EnsureOwInstalled
  \/ MapSearch
  \/ Select
  \/ MapShow
  \/ Confirm
  \/ PullRepo
  \/ MapShowAgain

ResolveSpec == ResolveInit /\ [][ResolveNext]_vars

(* a direct call of runOw *)
MaxArgs == 4

ArgWords ==
  {<<"--version">>, <<"map">>, <<"show">>, <<"search">>, <<"pull">>, <<"tanstack", "/", "pacer">>,
   <<"--json">>, <<"--clone-only">>, <<"--force">>}

ArgLists == UNION {[1..n -> ArgWords] : n \in 0..MaxArgs}

OwInit ==
  /\ RunInit
  /\ maxTurns = 1 /\ maxToolCalls = 1 /\ ~hasSignal
  /\ scope = resolveScope(Cwd, OpenScope)
  /\ CheckerIdle /\ StatusIdle /\ ResolverIdle
  /\ owArgs \in ArgLists
  /\ owResult = NoResult

\* runOw(pi, args): refuse, or hand the arguments to pi.exec and return its result
RunOw ==
  /\ owResult = NoResult
  /\ IF ~runOwAllowed(owArgs)
     THEN owResult' = Thrown([code |-> "invalid_map"])
     ELSE \E code \in ExitCodes : owResult' = [kind |-> "executed", args |-> owArgs, code |-> code]
  /\ UNCHANGED << runVars, checkerVars, statusVars, resolverVars, owArgs >>

OwNext == RunOw

OwSpec == OwInit /\ [][OwNext]_vars

TypeOK ==
  /\ pc \in {"start", "prompting", "settled", "returned", "thrown"}
  /\ details.phase \in {"booting", "exploring", "writing"} \cup TerminalPhases
  /\ sessTurn \in 0..(TurnCap + 1)

(* ------------------------------- claims ------------------------------- *)

Settled == pc \in {"returned", "thrown"}

\* the run went through the terminal decision (the session factory did not throw)
Decided == Settled /\ resources.session = "disposed"

HookStep == sp = "tool_started" /\ sp' = "tool_hooked"

IsPrefix(a, b) == Len(a) <= Len(b) /\ SubSeq(b, 1, Len(a)) = a

ScopeIsOpen == Len(scope.allowedRoots) = 0 /\ Len(scope.allowedFiles) = 0

\* the path lies under one of the allowed roots or is one of the allowed files
InScope(p) ==
  \/ \E i \in 1..Len(scope.allowedRoots) : IsPrefix(scope.allowedRoots[i], p)
  \/ \E i \in 1..Len(scope.allowedFiles) : p = scope.allowedFiles[i]

\* C1: once the prompt has settled, the final phase is the one of the first rule
\* that applies: violation -> error, signal fired -> aborted, prompt threw -> error,
\* blank final text with a turn-budget block -> error, stop reason error -> error,
\* stop reason aborted -> aborted, otherwise done.
C1_TerminalPriority ==
  [][ (pc = "settled" /\ pc' # "settled") =>
        details'.phase =
          (IF policyState.violation # NoViolation THEN "error"
           ELSE IF signalFired THEN "aborted"
           ELSE IF promptError.present THEN "error"
           ELSE IF Trim(finalText') = << >> /\ policyState.turnBudgetBlocked # NoViolation
                THEN "error"
           ELSE IF details'.stopReason = "error" THEN "error"
           ELSE IF details'.stopReason = "aborted" THEN "aborted"
           ELSE "done") ]_vars

\* a violation and a cancellation together ended in phase error
C1_Witness ==
  /\ Decided
  /\ policyState.violation # NoViolation
  /\ abortedBySignal
  /\ details.phase = "error"

\* C2: with a non-empty scope, a read/grep/find/ls call the policy hook lets
\* through has a resolved path inside an allowed root or equal to an allowed file.
C2_AllowedCallsInScope ==
  (/\ hookResult = "allowed"
   /\ curCall.toolName \in PathTools
   /\ ~ScopeIsOpen)
    => InScope(ResolvedPathOf(curCall.input, scope))

C2_Witness ==
  /\ hookResult = "allowed"
  /\ curCall.toolName = "read"
  /\ curCall.input.path.present /\ curCall.input.path.at
  /\ ~ScopeIsOpen

\* C3: policyState.toolCalls never exceeds maxToolCalls, grows by exactly one with
\* every call the hook allows, and is left alone by a blocked call and by every
\* other step.
C3_ToolCallBudget ==
  /\ [](policyState.toolCalls <= maxToolCalls)
  /\ [][ /\ (HookStep /\ hookResult' = "allowed")
              => policyState'.toolCalls = policyState.toolCalls + 1
         /\ (HookStep /\ hookResult' = "blocked")
              => policyState'.toolCalls = policyState.toolCalls
         /\ ~HookStep => policyState'.toolCalls = policyState.toolCalls ]_vars

\* the budget is used up and a further call has been blocked for it
C3_Witness ==
  /\ policyState.toolCalls = maxToolCalls
  /\ hookResult = "blocked"
  /\ policyState.violation # NoViolation
  /\ policyState.violation.kind = "tool_call_budget"

\* C4: the number of completed turns never exceeds maxTurns.
C4_TurnsWithinBudget == details.turns <= maxTurns

\* C5: every run eventually settles, by the budgets alone.
C5_RunSettles == <>Settled

\* C6: once details.phase is done, error or aborted, no step changes it.
C6_TerminalPhaseSticky ==
  [][ details.phase \in TerminalPhases => details'.phase = details.phase ]_vars

\* C7: a violation found by the hook before the final turn records
\* policyState.violation, requests abort and blocks the call; one found on the
\* final turn (turnIndex >= maxTurns - 1) blocks the call and records
\* turnBudgetBlocked, requests no abort and leaves policyState.violation alone.
C7_HardAndSoftStop ==
  [][ (/\ HookStep
       /\ getToolCallPolicyViolation(curCall.toolName, curCall.input, policyState.turnIndex,
             policyState.toolCalls, maxTurns, maxToolCalls, scope) # NoViolation)
        => /\ hookResult' = "blocked"
           /\ IF policyState.turnIndex < maxTurns - 1
              THEN /\ policyState'.violation # NoViolation
                   /\ abortCalls'.ctx = abortCalls.ctx + 1
                   /\ sessAborting'
                   /\ policyState'.turnBudgetBlocked = policyState.turnBudgetBlocked
              ELSE /\ policyState'.turnBudgetBlocked # NoViolation
                   /\ abortCalls' = abortCalls
                   /\ sessAborting' = sessAborting
                   /\ policyState'.violation = policyState.violation ]_vars

\* a call on the final turn was blocked softly
C7_Witness ==
  /\ sp = "tool_hooked" /\ hookResult = "blocked"
  /\ policyState.turnIndex = maxTurns - 1
  /\ policyState.turnBudgetBlocked # NoViolation
  /\ policyState.violation = NoViolation
  /\ abortCalls.ctx = 0 /\ ~sessAborting

\* C8: policyState.violation and policyState.turnBudgetBlocked are write-once,
\* and the violation reported at the end is the recorded one.
C8_WriteOnce ==
  /\ [][ /\ policyState.violation # NoViolation
              => policyState'.violation = policyState.violation
         /\ policyState.turnBudgetBlocked # NoViolation
              => policyState'.turnBudgetBlocked = policyState.turnBudgetBlocked ]_vars
  /\ []((Decided /\ policyState.violation # NoViolation)
          => /\ details.errorMessage = ViolationText(policyState.violation)
             /\ result = Thrown([type |-> "violation", message |-> policyState.violation]))

\* a second, different violation was found after one had been recorded
C8_Witness ==
  /\ sp = "tool_hooked" /\ hookResult = "blocked"
  /\ policyState.violation # NoViolation
  /\ abortCalls.ctx = 2
  /\ getToolCallPolicyViolation(curCall.toolName, curCall.input, policyState.turnIndex,
        policyState.toolCalls, maxTurns, maxToolCalls, scope) # policyState.violation

\* a turn-budget block is on record and nothing of higher priority applies
BudgetBlockOnly ==
  /\ Decided
  /\ policyState.turnBudgetBlocked # NoViolation
  /\ policyState.violation = NoViolation
  /\ ~abortedBySignal
  /\ ~promptError.present

FailedWithBudgetMessage ==
  /\ pc = "thrown"
  /\ details.phase = "error"
  /\ result = Thrown([type |-> "violation", message |-> policyState.turnBudgetBlocked])

\* C9 as stated: with only a turn-budget block on record the run fails with the
\* turn-budget message iff the final text is blank, and a run with text captured
\* ends in phase done and returns that text.
C9_BudgetBlockOutcome ==
  BudgetBlockOnly =>
    /\ FailedWithBudgetMessage <=> (Trim(finalText) = << >>)
    /\ Trim(finalText) # << >> =>
         /\ pc = "returned"
         /\ details.phase = "done"
         /\ result.finalText = finalText

\* C9 (amended): with only a turn-budget block on record the run fails with the
\* turn-budget message iff the final text is blank; with text captured and a last
\* stop reason that is neither error nor aborted it ends in phase done and returns
\* that text, cut at the head and marked when it exceeds the output ceiling.
C9_BudgetBlockOutcomeAmended ==
  BudgetBlockOnly =>
    /\ FailedWithBudgetMessage <=> (Trim(finalText) = << >>)
    /\ (Trim(finalText) # << >> /\ details.stopReason \notin {"error", "aborted"}) =>
         /\ pc = "returned"
         /\ details.phase = "done"
         /\ IF details.finalTextTruncated
            THEN \E k \in 0..(Len(finalText) - 1) :
                   result.finalText = SubSeq(finalText, 1, k) \o TruncationMarker
            ELSE result.finalText = finalText

\* a run whose tool call was blocked on the final turn still returned its answer
C9_Witness ==
  /\ BudgetBlockOnly
  /\ pc = "returned"
  /\ finalText = <<"a">>
  /\ result.finalText = <<"a">>

\* C10 as stated: finalText is the text of the last assistant message looked at.
C10_LastMessageWins == finalText = lastObserved.text

\* C10 (amended): every assistant message looked at (message_end, message log)
\* that carries text replaces finalText by its text; one that carries no text
\* leaves finalText as it was. Nothing else changes finalText.
C10_LastTextWins ==
  [][ IF lastObserved' # lastObserved
      THEN finalText' = (IF lastObserved'.text # << >> THEN lastObserved'.text
                         ELSE finalText)
      ELSE finalText' = finalText ]_vars

\* an earlier answer was kept when a later assistant message carried no text
C10_Witness ==
  /\ lastObserved.text = << >>
  /\ finalText = <<"a">>
  /\ logLast # NoMessage /\ extractAssistantText(logLast) = << >>

\* the caller's signal is seen fired by this step: at the wiring after the session
\* was created, or by the listener while the prompt call has not been left
SignalSeen ==
  \/ pc = "start" /\ pc' = "prompting" /\ signalFired
  \/ pc \in {"prompting", "settled"} /\ ~signalFired /\ signalFired'

\* C11 as stated: over a whole run there is at most one abort request to the
\* session (session.abort() by onAbort, ctx.abort() by the policy hook), and a run
\* whose signal fired before it settled has made exactly one.
C11_SingleAbortRequest ==
  /\ [](abortCalls.session + abortCalls.ctx <= 1)
  /\ [][ (~Settled /\ Settled' /\ signalFired)
           => abortCalls'.session + abortCalls'.ctx = 1 ]_vars

\* C11 (amended): onAbort calls session.abort() at most once in a run, and exactly
\* once when a session was created and the signal is fired at the wiring or fires
\* before the prompt call is left; no other step calls it. (The policy hook
\* requests ctx.abort() on its own account, once for every hard violation.)
C11_SignalAbortsOnce ==
  /\ [](abortCalls.session <= 1)
  /\ [][ abortCalls'.session = abortCalls.session + (IF SignalSeen THEN 1 ELSE 0) ]_vars
  /\ []((Decided /\ abortedBySignal) => abortCalls.session = 1)

\* the signal fired while a hard violation had already requested ctx.abort()
C11_Witness ==
  /\ Decided
  /\ abortedBySignal
  /\ abortCalls.session = 1
  /\ abortCalls.ctx >= 1

\* a session was created: the factory resolved
SessionCreated == sp # "none"

Called == Len(verdicts) >= 1

Verdict == verdicts[1]

\* C13: with turnIndex >= maxTurns - 1 the checker reports the turn-budget
\* violation, whatever the tool, the input, the tool-call count and the scope.
C13_TurnBudgetAlways ==
  (Called /\ options.turnIndex >= options.maxTurns - 1)
    => /\ Verdict.kind = "turn_budget"
       /\ Verdict.max = options.maxTurns

\* the turn budget was reported for a tool without path, under the open scope
C13_Witness ==
  /\ Called
  /\ options.turnIndex >= options.maxTurns - 1
  /\ options.toolName = "bash"
  /\ Len(options.scope.allowedRoots) = 0 /\ Len(options.scope.allowedFiles) = 0
  /\ options.toolCalls < options.maxToolCalls
  /\ Verdict.kind = "turn_budget"

\* C14 as stated: with toolCalls = maxToolCalls the checker reports the
\* tool-call-budget violation, for every tool, input, turnIndex and scope.
C14_ToolBudgetAlways ==
  (Called /\ options.toolCalls = options.maxToolCalls)
    => Verdict.kind = "tool_call_budget"

\* C14 (amended): with toolCalls = maxToolCalls the checker always reports a
\* violation: the tool-call-budget violation when turnIndex < maxTurns - 1, the
\* turn-budget violation otherwise, for every tool, input and scope.
C14_ToolBudgetAfterTurnBudget ==
  (Called /\ options.toolCalls = options.maxToolCalls)
    => IF options.turnIndex < options.maxTurns - 1
       THEN /\ Verdict.kind = "tool_call_budget"
            /\ Verdict.count = options.toolCalls
            /\ Verdict.max = options.maxToolCalls
       ELSE Verdict.kind = "turn_budget"

\* the tool-call budget was reported for a read outside the allowed roots
C14_Witness ==
  /\ Called
  /\ options.toolCalls = options.maxToolCalls
  /\ options.turnIndex < options.maxTurns - 1
  /\ options.toolName = "read"
  /\ options.input.path = Plain(TRUE, <<"etc">>)
  /\ Len(options.scope.allowedRoots) > 0
  /\ Verdict.kind = "tool_call_budget"

\* the pattern is absolute or has a ".." segment
UnsafeGlob(g) == g.present /\ (g.abs \/ \E i \in 1..Len(g.segs) : g.segs[i] = "..")

\* a find with such a pattern, or a grep with such a glob
UnsafeSearch ==
  \/ options.toolName = "find" /\ UnsafeGlob(options.input.pattern)
  \/ options.toolName = "grep" /\ UnsafeGlob(options.input.glob)

OpenOptionsScope ==
  Len(options.scope.allowedRoots) = 0 /\ Len(options.scope.allowedFiles) = 0

BudgetsLeft ==
  /\ options.turnIndex < options.maxTurns - 1
  /\ options.toolCalls < options.maxToolCalls

\* C15 as stated: a find pattern or grep glob that is absolute or has a ".."
\* segment makes the checker report a violation, for every scope and path.
C15_UnsafePatternAlways == (Called /\ UnsafeSearch) => Verdict # NoViolation

\* C15 (amended): under a scope that is not open, such a pattern or glob makes the
\* checker report a violation wherever the path argument points: the pattern
\* violation when both budgets are left, a budget violation otherwise.
C15_UnsafePatternInScope ==
  (Called /\ UnsafeSearch /\ ~OpenOptionsScope)
    => /\ Verdict # NoViolation
       /\ BudgetsLeft => Verdict.kind = "pattern"

\* a find inside an allowed root was refused for its pattern
C15_Witness ==
  /\ Called
  /\ options.toolName = "find"
  /\ options.input.path = Plain(FALSE, <<"r">>)
  /\ options.input.pattern = Glob(FALSE, <<"a", "..", "*">>)
  /\ options.scope.allowedRoots = << <<"w", "r">> >>
  /\ BudgetsLeft
  /\ Verdict.kind = "pattern"

\* C35: under an open scope (no allowed roots, no allowed files) and with both
\* budgets left, the checker reports no violation, whatever the tool, the path
\* and the pattern or glob.
C35_OpenScopeAllowsAll == (Called /\ OpenOptionsScope /\ BudgetsLeft) => Verdict = NoViolation

\* under an open scope a find with an absolute pattern on an absolute path was allowed
C35_Witness ==
  /\ Called /\ OpenOptionsScope /\ BudgetsLeft
  /\ options.toolName = "find"
  /\ options.input.path.present /\ options.input.path.abs
  /\ options.input.pattern.present /\ options.input.pattern.abs
  /\ Verdict = NoViolation

\* the path argument, resolved, is an allowed root, lies under one, or is an
\* allowed file
InsideOptionsScope ==
  LET p == ResolvedPathOf(options.input, options.scope)
  IN  \/ \E i \in 1..Len(options.scope.allowedRoots) :
            IsPrefix(options.scope.allowedRoots[i], p)
      \/ \E i \in 1..Len(options.scope.allowedFiles) : p = options.scope.allowedFiles[i]

\* C16: with both budgets left and a scope that is not open, a read, grep, find
\* or ls (whose pattern or glob, if any, is harmless) is allowed exactly when its
\* path argument is inside the scope, and gets the out-of-scope path violation
\* otherwise.
C16_AllowedIffInside ==
  (/\ Called /\ BudgetsLeft /\ ~OpenOptionsScope
   /\ options.toolName \in PathTools
   /\ ~UnsafeSearch)
    => IF InsideOptionsScope THEN Verdict = NoViolation ELSE Verdict.kind = "path"

LinesOf(t) == SplitLines(<< >>, t)

FirstLines(t, k) == JoinLines(SubSeq(LinesOf(t), 1, k))

\* C18 as stated: final text over the line ceiling is returned as its first
\* ceiling-many lines and the marker, flagged as truncated; final text at or
\* below the line ceiling is returned as it is, without marker and flag.
C18_CutAtLineCeiling ==
  pc = "returned" =>
    IF Len(LinesOf(finalText)) > MaxFinalTextLines
    THEN /\ result.finalText = FirstLines(finalText, MaxFinalTextLines) \o TruncationMarker
         /\ details.finalTextTruncated
    ELSE /\ result.finalText = finalText
         /\ ~details.finalTextTruncated

\* k leading lines of the text are within both ceilings
Fits(t, k) == k <= MaxFinalTextLines /\ Len(FirstLines(t, k)) <= MaxFinalTextBytes

\* C18 (amended): final text within the line ceiling and the byte ceiling is
\* returned as it is, without marker and flag ("(no output)" for no text at all);
\* final text over either ceiling is returned as the longest run of whole leading
\* lines within both ceilings (exactly ceiling-many lines when the bytes allow,
\* possibly none) and the marker, flagged as truncated.
C18_CutAtCeilings ==
  pc = "returned" =>
    LET n == Len(LinesOf(finalText))
    IN  IF finalText = << >>
        THEN result.finalText = NoOutputText /\ ~details.finalTextTruncated
        ELSE IF n <= MaxFinalTextLines /\ Len(finalText) <= MaxFinalTextBytes
        THEN result.finalText = finalText /\ ~details.finalTextTruncated
        ELSE /\ details.finalTextTruncated
             /\ \E k \in 0..n :
                  /\ Fits(finalText, k)
                  /\ k < n => ~Fits(finalText, k + 1)
                  /\ result.finalText = FirstLines(finalText, k) \o TruncationMarker

\* a text of three lines came back as its first two lines and the marker
C18_Witness ==
  /\ pc = "returned"
  /\ Len(LinesOf(finalText)) = MaxFinalTextLines + 1
  /\ details.finalTextTruncated
  /\ result.finalText = FirstLines(finalText, MaxFinalTextLines) \o TruncationMarker

(* claims about the event log (StatusSpec) *)

\* the entry the log holds for the i-th event delivered
LogEntry(i) ==
  LET e == delivered[i]
      name == IF e.toolName = Absent THEN "unknown" ELSE e.toolName
  IN  IF e.type = "tool_execution_start"
      THEN [type |-> "tool_start", toolName |-> name, timestamp |-> i]
      ELSE [type |-> "tool_end", toolName |-> name, isError |-> e.isError, timestamp |-> i]

\* C19: details.events never holds more than 120 entries, and it holds the
\* entries of the most recent events delivered, in the order of delivery: all of
\* them up to 120, the last 120 after that (the oldest entry is the one dropped).
C19_EventsRing ==
  LET n == Len(delivered)
      k == IF n < 120 THEN n ELSE 120
  IN  /\ Len(events) <= 120
      /\ Len(events) = k
      /\ \A i \in 1..k : events[i] = LogEntry(n - k + i)

\* two events past the capacity: the two oldest entries are gone
C19_Witness ==
  /\ Len(delivered) = 122
  /\ Len(events) = 120
  /\ events[1].timestamp = 3
  /\ events[120].timestamp = 122

(* claims about the error a run throws (Spec) *)

StopReasonError ==
  [type |-> "stop_reason", reason |-> details.stopReason, message |-> details.errorMessage]

\* C20 as stated: a run that ends in phase error or aborted has thrown, and the
\* error is the first available of: the recorded violation, the abort error, the
\* prompt error, the recorded turn-budget block, the stop-reason error.
C20_MostSpecificError ==
  (Settled /\ details.phase \in {"error", "aborted"})
    => /\ pc = "thrown"
       /\ result =
            Thrown(IF policyState.violation # NoViolation
                   THEN [type |-> "violation", message |-> policyState.violation]
                   ELSE IF abortedBySignal THEN [type |-> "aborted_by_signal"]
                   ELSE IF promptError.present
                        THEN [type |-> "prompt", message |-> promptError.text]
                   ELSE IF policyState.turnBudgetBlocked # NoViolation
                        THEN [type |-> "violation", message |-> policyState.turnBudgetBlocked]
                   ELSE StopReasonError)

\* C20 (amended): as stated, except that the recorded turn-budget block is the
\* error only when no text was captured (the final text is blank); with text
\* captured the error is the stop-reason error.
C20_MostSpecificErrorAmended ==
  (Settled /\ details.phase \in {"error", "aborted"})
    => /\ pc = "thrown"
       /\ result =
            Thrown(IF policyState.violation # NoViolation
                   THEN [type |-> "violation", message |-> policyState.violation]
                   ELSE IF abortedBySignal THEN [type |-> "aborted_by_signal"]
                   ELSE IF promptError.present
                        THEN [type |-> "prompt", message |-> promptError.text]
                   ELSE IF policyState.turnBudgetBlocked # NoViolation
                           /\ Trim(finalText) = << >>
                        THEN [type |-> "violation", message |-> policyState.turnBudgetBlocked]
                   ELSE StopReasonError)

\* a run with a turn-budget block on record and an answer captured failed with
\* the session's own error message
C20_Witness ==
  /\ pc = "thrown"
  /\ details.phase = "error"
  /\ policyState.turnBudgetBlocked # NoViolation
  /\ Trim(finalText) # << >>
  /\ result = Thrown([type |-> "stop_reason", reason |-> "error",
                       message |-> SomeText(<<"e">>)])

(* ----------------------------- tool result ----------------------------- *)

\* execute: the tool result handed to the host, from the catch branch when the
\* supervised run threw and from the success return otherwise; subprocessDetails
\* is the details object of the run (handed out by the first status update)
ExecuteResult ==
  IF result.kind = "thrown"
  THEN [isError |-> TRUE,
        content |-> [error |-> result.error],
        details |-> [status |-> "error", phase |-> details.phase, subprocess |-> details]]
  ELSE [isError |-> FALSE,
        content |-> [text |-> result.finalText],
        details |-> [status |-> "done", phase |-> details.phase, subprocess |-> details]]

\* the assistant texts a tool result carries
CarriedTexts(r) == IF "text" \in DOMAIN r.content THEN {r.content.text} ELSE {}

\* C21: when the supervised run fails after an assistant text was captured,
\* the failure payload carries that text.
C21_PartialTextPreserved ==
  (pc = "thrown" /\ Trim(finalText) # << >>) => finalText \in CarriedTexts(ExecuteResult)

(* ------------------------- claims: the resolver ------------------------- *)

Resolving == rpc # "idle"

Failed(code) == rpc = "thrown" /\ resolved = Thrown([code |-> code])

IsVersion(args) == args = VersionArgs
IsSearch(args) == Len(args) = 4 /\ args[1] = <<"map">> /\ args[2] = <<"search">> /\ args[4] = <<"--json">>
IsShow(args) == Len(args) = 4 /\ args[1] = <<"map">> /\ args[2] = <<"show">> /\ args[4] = <<"--json">>
IsPull(args) == Len(args) = 3 /\ args[1] = <<"pull">> /\ args[3] = <<"--clone-only">>

Issued(Is(_)) == \E i \in 1..Len(commands) : Is(commands[i].args)

\* C22: without UI, once a search has answered with two or more candidates the
\* resolution has failed with repo_ambiguous, no candidate is selected, and the
\* search is the last command issued (no show, no pull).
C22_NoGuessWithoutUI ==
  (Resolving /\ ~request.hasUI /\ Len(locals.matches) >= 2)
    => /\ Failed("repo_ambiguous")
       /\ Falsy(locals.selectedRepo)
       /\ prompts = << >>
       /\ Len(commands) = 2 /\ IsVersion(commands[1].args) /\ IsSearch(commands[2].args)

\* without UI a search answered with a dominant candidate (97 against 11) and
\* the resolution failed
C22_Witness ==
  /\ ~request.hasUI
  /\ Len(locals.matches) >= 2
  /\ locals.matches[1].score = 97 /\ locals.matches[2].score = 11
  /\ Failed("repo_ambiguous")

Asked(prompt) == \E i \in 1..Len(prompts) : prompts[i] = prompt

\* the first lookup found the entry
FirstLookupFound == locals.hasClone \/ locals.missingAssets

\* the user did not stand in the way of a pull: no UI, or the confirmation accepted
PullAgreed == ~request.hasUI \/ Asked("confirm accepted")

\* C23: a pull is invoked exactly when the entry found at the first lookup had no
\* git metadata at its clone path (and, with UI, the user confirmed); with the
\* marker present no pull is invoked and a success is tagged existing, whatever
\* the reference path is; without it every success comes after a pull and is
\* tagged pulled.
C23_PullIffCloneMissing ==
  Resolving =>
    /\ Issued(IsPull) => (FirstLookupFound /\ ~markers[1] /\ PullAgreed)
    /\ (FirstLookupFound /\ ~markers[1] /\ PullAgreed /\ rpc # "pull") => Issued(IsPull)
    /\ (FirstLookupFound /\ markers[1])
         => /\ ~Issued(IsPull)
            /\ rpc = "returned" => resolved.resolvedFrom = "existing"
    /\ (rpc = "returned" /\ ~markers[1])
         => /\ Issued(IsPull) /\ IsPull(commands[Len(commands) - 1].args)
            /\ resolved.resolvedFrom = "pulled"

\* an entry whose clone had no git metadata was pulled after the user agreed,
\* and the resolution succeeded
C23_Witness ==
  /\ rpc = "returned"
  /\ request.hasUI
  /\ ~markers[1]
  /\ Issued(IsPull)
  /\ resolved.resolvedFrom = "pulled"

\* an entry with git metadata but a reference path that is a directory with a
\* trailing separator was resolved without a pull
C23_WitnessExisting ==
  /\ rpc = "returned"
  /\ markers = <<TRUE>>
  /\ locals.show.referencePath = SomeText(<<"/", "refs", "/">>)
  /\ ~Issued(IsPull)
  /\ resolved.resolvedFrom = "existing"

\* C24: a ResolvedRepo is returned only with a non-empty clonePath that held git
\* metadata at the last lookup; a re-lookup after the pull whose clone path has
\* none ends in missing_assets.
C24_ReturnsOnlyVerifiedClone ==
  Resolving =>
    /\ rpc = "returned"
         => /\ Len(resolved.clonePath) > 0
            /\ pathLooksLikeClone(resolved.clonePath, clones)
            /\ markers[Len(markers)]
            /\ resolved.clonePath = locals.show.localPath.text
    /\ (Len(markers) = 2 /\ ~markers[2]) => Failed("missing_assets")

\* the pull went through, the entry looked up again names a directory without
\* git metadata, and the resolution failed with missing_assets
C24_Witness ==
  /\ Issued(IsPull)
  /\ Len(markers) = 2 /\ ~markers[2]
  /\ locals.show.localPath = SomeText(OtherPath)
  /\ Failed("missing_assets")

EndsInSeparator(t) == endsWith(t, "/") \/ endsWith(t, "\\")

\* C25: the referencePath of a returned ResolvedRepo is empty or names an
\* existing regular file and does not end in a separator; it is the entry's
\* reference path when that one is such a file and empty otherwise. An entry
\* whose clone holds git metadata is returned whatever its reference path is,
\* and is not pulled for it.
C25_ReferencePathOrEmpty ==
  Resolving =>
    /\ rpc = "returned"
         => LET entryPath == OrEmpty(locals.show.referencePath)
                usable == entryPath \in RegularFiles /\ ~EndsInSeparator(entryPath)
            IN  /\ \/ resolved.referencePath = << >>
                   \/ /\ resolved.referencePath \in RegularFiles
                      /\ ~EndsInSeparator(resolved.referencePath)
                /\ resolved.referencePath = IF usable THEN entryPath ELSE << >>
    /\ (markers # << >> /\ markers[Len(markers)]) => rpc \in {"returned", "session"}
    /\ (markers # << >> /\ markers[1]) => ~Issued(IsPull)

\* entries whose reference path is a directory named with a trailing separator
\* were returned with an empty referencePath
C25_Witness ==
  /\ rpc = "returned"
  /\ locals.show.referencePath = SomeText(<<"/", "refs", "/">>)
  /\ resolved.referencePath = << >>
  /\ resolved.resolvedFrom = "existing"

(* --------------------------- claims: runOw ---------------------------- *)

\* the four command shapes: --version, map show <id> --json,
\* map search <term> --json, pull <id> --clone-only
FourShapes(args) == IsVersion(args) \/ IsShow(args) \/ IsSearch(args) \/ IsPull(args)

\* C26: an argument list that runOw hands to pi.exec has one of the four shapes
\* (any other list is refused before execution).
C26_OnlyFourShapesExecuted ==
  owResult.kind = "executed" => FourShapes(owResult.args)

\* every command a resolution issues has one of the four shapes
C26_ResolverUsesFourShapes ==
  \A i \in 1..Len(commands) : FourShapes(commands[i].args)

(* ---------------------- claims: the command sequence ---------------------- *)

KindOf(args) ==
  IF IsVersion(args) THEN "version"
  ELSE IF IsSearch(args) THEN "search"
  ELSE IF IsShow(args) THEN "show"
  ELSE IF IsPull(args) THEN "pull"
  ELSE "other"

Kinds == [i \in 1..Len(commands) |-> KindOf(commands[i].args)]

\* the identifier resolveRepoWithOffworld starts from
StartingRepo ==
  IF request.repoHint.present THEN request.repoHint
  ELSE extractRepoHintFromTask(request.task)

\* C27: the commands of a resolution are a prefix of version, search (only when
\* no identifier was determined), show, pull, show; every command but the last
\* resolved with exit code 0, so nothing follows a failed version check or any
\* other failure, and a resolution that returned ran the whole sequence up to
\* its first or second show.
C27_CommandSequence ==
  Resolving =>
    /\ \/ IsPrefix(Kinds, <<"version", "show", "pull", "show">>)
       \/ IsPrefix(Kinds, <<"version", "search", "show", "pull", "show">>)
    /\ Issued(IsSearch) <=> (Len(commands) >= 2 /\ Falsy(StartingRepo))
    /\ \A i \in 1..(Len(commands) - 1) : commands[i].code = 0
    /\ (commands # << >> /\ commands[Len(commands)].code # 0) => rpc = "thrown"
    /\ rpc = "returned" => Kinds[Len(Kinds)] = "show"
    /\ (rpc \in {"returned", "thrown"} /\ Issued(IsPull)
          /\ commands[Len(commands)].code = 0) => Kinds[Len(Kinds)] = "show"

\* a resolution ran all five commands and returned
C27_Witness ==
  /\ rpc = "returned"
  /\ Kinds = <<"version", "search", "show", "pull", "show">>

\* C28: once the version check has passed, a search is issued exactly when
\* neither the repo hint nor the task text yields an identifier; otherwise the
\* show lookup follows the version check directly.
C28_SearchIffNoIdentifier ==
  (Resolving /\ Len(commands) >= 2)
    => LET noIdentifier == Falsy(request.repoHint)
                             /\ Falsy(extractRepoHintFromTask(request.task))
       IN  /\ Issued(IsSearch) <=> noIdentifier
           /\ ~noIdentifier => Kinds[2] = "show"

\* C29: when the search answered with exactly one candidate, with or without
\* UI, no selection prompt was opened, the resolution did not fail with
\* repo_ambiguous, and that candidate's name is the selected repository, which
\* the show lookup is then asked for.
C29_SingleCandidateShortCircuit ==
  (Resolving /\ Len(locals.matches) = 1)
    => /\ ~Asked("select")
       /\ ~Failed("repo_ambiguous")
       /\ locals.selectedRepo = SomeText(locals.matches[1].fullName)
       /\ IF locals.matches[1].fullName = << >> THEN Failed("repo_unresolved")
          ELSE Len(commands) = 2
                 \/ commands[3].args = ShowArgs(locals.matches[1].fullName)

\* with UI, the only candidate of a search was looked up without a prompt
C29_Witness ==
  /\ request.hasUI
  /\ Len(locals.matches) = 1
  /\ prompts = << >>
  /\ Len(commands) = 3
  /\ commands[3].args = ShowArgs(locals.matches[1].fullName)
  /\ rpc = "returned"

\* C30: the pull confirmation is asked with UI when the clone is missing at the
\* first lookup, and only then; once the user has declined it, the resolution
\* has failed with pull_rejected, no pull command was issued, and the show
\* lookup is the last command.
C30_DeclinedPullRejected ==
  Resolving =>
    /\ Asked("confirm") <=> (request.hasUI /\ locals.missingAssets)
    /\ Asked("confirm declined")
         => /\ request.hasUI /\ ~markers[1]
            /\ Failed("pull_rejected")
            /\ ~Issued(IsPull)
            /\ Kinds[Len(Kinds)] = "show"
    /\ Failed("pull_rejected") => Asked("confirm declined")

\* the user declined the pull of an entry whose clone path holds no git metadata
C30_Witness ==
  /\ Failed("pull_rejected")
  /\ request.hasUI
  /\ locals.show.localPath = SomeText(ClonePath) /\ markers = <<FALSE>>
  /\ prompts = <<"confirm", "confirm declined">>

(* ------------------------ claims: disambiguation ------------------------ *)

Cancelled(picked) == ~picked.present \/ picked.text = << >>

\* the answer names the candidate: its label, or its name with or without a
\* score suffix
NamesCandidate(text, c) == text = Label(c) \/ StripScore(text) = c.fullName

\* C31: the selection prompt is opened with UI for two or more candidates and
\* offers the labels of the first candidates, six at most. Once it is answered:
\* a cancelled selection failed and selected nothing; an answer equal to an
\* offered label selected the candidate of that label; an answer that names no
\* offered candidate failed with repo_ambiguous and selected nothing; and
\* whatever was selected is one of the offered candidates.
C31_SelectionAmongOffered ==
  (Resolving /\ Asked("select"))
    => LET matches == locals.matches
           offered == 1..Len(locals.options)
       IN  /\ request.hasUI /\ Len(matches) >= 2
           /\ Len(locals.options) <= 6 /\ Len(locals.options) <= Len(matches)
           /\ Len(locals.options) = 6 \/ Len(locals.options) = Len(matches)
           /\ \A i \in offered : locals.options[i] = Label(matches[i])
           /\ Asked("select answered")
                => /\ Cancelled(locals.picked)
                        => Failed("repo_unresolved") /\ Falsy(locals.selectedRepo)
                   /\ \A i \in offered :
                        (~Cancelled(locals.picked) /\ locals.picked.text = locals.options[i])
                          => locals.selectedRepo = SomeText(matches[i].fullName)
                   /\ (~Cancelled(locals.picked)
                         /\ \A i \in offered : ~NamesCandidate(locals.picked.text, matches[i]))
                        => Failed("repo_ambiguous") /\ Falsy(locals.selectedRepo)
                   /\ ~Falsy(locals.selectedRepo)
                        => \E i \in offered : locals.selectedRepo.text = matches[i].fullName

\* seven candidates were found, six offered, and the label of the seventh was
\* answered: the resolution failed with repo_ambiguous
C31_Witness ==
  /\ Asked("select answered")
  /\ Len(locals.matches) = 7 /\ Len(locals.options) = 6
  /\ locals.picked = SomeText(Label(locals.matches[7]))
  /\ Failed("repo_ambiguous")

\* the label of the second candidate, whose name begins with the name of the
\* first, was answered and the second candidate was looked up
C31_WitnessPrefix ==
  /\ Asked("select answered")
  /\ Len(locals.matches) = 2
  /\ locals.matches[1].fullName = <<"o", "/", "r">>
  /\ locals.picked = SomeText(Label(locals.matches[2]))
  /\ locals.selectedRepo = SomeText(<<"o", "/", "r", "-ui">>)
  /\ rpc = "returned"

(* ------------------------ claims: canonical slug ------------------------ *)

\* the segment of a text after its last separator, the whole text without one
AfterLast(t, sep) == LET parts == SplitAt(<< >>, t, sep) IN parts[Len(parts)]

\* the first lookup found an entry and no second lookup replaced it yet
FirstEntryHeld == Resolving /\ FirstLookupFound /\ Len(markers) = 1

\* C32: once the first lookup found an entry, the identifier the resolution
\* goes on with is the segment of the entry's qualified name after the last
\* ':', the whole qualified name when it holds no ':'.
C32_SlugAfterLastColon ==
  FirstEntryHeld
    => locals.effectiveRepo = AfterLast(OrEmpty(locals.show.qualifiedName), ":")

\* C32, qualified names with at most one ':': the slug is the segment after it
C32_SlugOfSingleColonName ==
  (FirstEntryHeld /\ Len(SplitAt(<< >>, OrEmpty(locals.show.qualifiedName), ":")) <= 2)
    => locals.effectiveRepo = AfterLast(OrEmpty(locals.show.qualifiedName), ":")

(* ------------------------ claims: nothing to resolve ------------------------ *)

\* the search answered with an empty list of matches
SearchFoundNothing == locals.searchAnswered /\ locals.matches = << >>

\* the only lookup so far, that of the selected identifier, answered found = false
FirstLookupNotFound == Len(markers) = 1 /\ ~locals.show.found

\* C33: once the search has answered with zero matches, or the lookup of the
\* selected identifier has answered found = false, the resolution has failed
\* with repo_unresolved and no pull was invoked.
C33_UnresolvedWithoutPull ==
  (Resolving /\ (SearchFoundNothing \/ FirstLookupNotFound))
    => Failed("repo_unresolved") /\ ~Issued(IsPull)

\* a search answered with zero matches and the resolution failed
C33_Witness ==
  /\ Failed("repo_unresolved")
  /\ SearchFoundNothing
  /\ IsSearch(commands[Len(commands)].args)

\* the lookup of the selected identifier answered found = false and the
\* resolution failed
C33_WitnessNotFound ==
  /\ Failed("repo_unresolved")
  /\ FirstLookupNotFound
  /\ IsShow(commands[Len(commands)].args)

(* ------------------------ claims: scope of a tool run ------------------------ *)

\* a call of a path tool on a path outside every clone and reference document
OutsideInput == PathOnly(Plain(TRUE, <<"etc">>))

AbsoluteOf(t) == pathResolve(Cwd, ParsePath(t))

\* C34: a session is created only from a returned resolution, and its scope has
\* exactly one allowed root, the non-empty clone path that holds git metadata,
\* and as allowed files the reference path when it is non-empty and nothing
\* otherwise; with budgets left the checker then refuses a path outside the
\* scope for each of read, grep, find and ls. Before that no scope was set up.
C34_RunScopeNeverOpen ==
  /\ (rpc = "session")
       => /\ resolved.kind = "returned"
          /\ resolved.clonePath # << >> /\ resolved.clonePath \in clones
          /\ scope.allowedRoots = <<AbsoluteOf(resolved.clonePath)>>
          /\ scope.allowedFiles = (IF resolved.referencePath # << >>
                                   THEN <<AbsoluteOf(resolved.referencePath)>> ELSE << >>)
          /\ \A toolName \in PathTools :
               getToolCallPolicyViolation(toolName, OutsideInput, 0, 0, 2, 1, scope)
                 = PathViolation(toolName, RawPathOf(OutsideInput), scope)
  /\ (Resolving /\ rpc # "session") => scope = resolveScope(Cwd, OpenScope)

\* a session was created for a clone without a reference document
C34_Witness ==
  /\ rpc = "session"
  /\ resolved.referencePath = << >>
  /\ Len(scope.allowedRoots) = 1 /\ scope.allowedFiles = << >>

\* a session was created for a clone with a reference document
C34_WitnessReference ==
  /\ rpc = "session"
  /\ resolved.referencePath # << >>
  /\ Len(scope.allowedRoots) = 1 /\ Len(scope.allowedFiles) = 1

(* ------------------------ claims: the heartbeat (BeatSpec) ------------------------ *)

\* C36: a tick of the heartbeat changes neither the phase nor any counter of the
\* run record; in phase done, error or aborted it emits nothing (the status
\* line stays as it was), and in any other phase it emits once, 'exploring
\* codebase' when the phase is exploring and 'waiting for output' otherwise.
C36_HeartbeatOnlyWhileRunning ==
  [][ beat'.ticks > beat.ticks
        => /\ details' = details /\ policyState' = policyState
           /\ IF details.phase \in TerminalPhases
              THEN beat'.emitted = beat.emitted /\ detailsMessage' = detailsMessage
              ELSE /\ beat'.emitted = beat.emitted + 1
                   /\ details.phase = "exploring" => detailsMessage' = "exploring codebase"
                   /\ details.phase # "exploring" => detailsMessage' = "waiting for output" ]_vars

\* a tick fired in the aborted phase and emitted nothing; the status line is
\* still the one of the boot
C36_Witness ==
  /\ beat.ticks = 1 /\ beat.emitted = 0
  /\ details.phase = "aborted"
  /\ detailsMessage = "booting in-process session"

\* a tick in the exploring phase emitted 'exploring codebase'
C36_WitnessExploring ==
  /\ beat.ticks = 1 /\ beat.emitted = 1
  /\ details.phase = "exploring"
  /\ detailsMessage = "exploring codebase"

\* a tick in the writing phase emitted 'waiting for output'
C36_WitnessWaiting ==
  /\ beat.ticks = 1 /\ beat.emitted = 1
  /\ details.phase = "writing"
  /\ detailsMessage = "waiting for output"

(* ------------------------ claims: the turn budget is a soft stop ------------------------ *)

HardStopKinds == {"tool_call_budget", "path", "pattern"}

\* what the checker answers to the call the hook is about to look at
HookVerdict ==
  getToolCallPolicyViolation(curCall.toolName, curCall.input, policyState.turnIndex,
                             policyState.toolCalls, maxTurns, maxToolCalls, scope)

\* C37: policyState.violation only ever holds a tool-call-budget, out-of-scope
\* path or unsafe-pattern violation and policyState.turnBudgetBlocked only the
\* turn-budget violation; the hook gets the turn-budget violation exactly when
\* turnIndex >= maxTurns - 1, and then it blocks the call, whatever the tool and
\* its path, records nothing in policyState.violation and requests no abort.
C37_TurnBudgetIsSoftStop ==
  /\ [](/\ policyState.violation # NoViolation => policyState.violation.kind \in HardStopKinds
        /\ policyState.turnBudgetBlocked # NoViolation
             => policyState.turnBudgetBlocked.kind = "turn_budget")
  /\ [][ HookStep
           => /\ (HookVerdict.kind = "turn_budget") <=> (policyState.turnIndex >= maxTurns - 1)
              /\ policyState.turnIndex >= maxTurns - 1
                   => /\ hookResult' = "blocked"
                      /\ policyState'.turnBudgetBlocked # NoViolation
                      /\ policyState'.violation = policyState.violation
                      /\ abortCalls' = abortCalls ]_vars

\* on the final turn a call of a tool without path was blocked with the
\* tool-call budget not yet spent, and only the turn-budget block is on record
C37_Witness ==
  /\ sp = "tool_hooked" /\ hookResult = "blocked"
  /\ curCall.toolName = "bash"
  /\ policyState.turnIndex = maxTurns - 1
  /\ policyState.toolCalls < maxToolCalls
  /\ policyState.turnBudgetBlocked # NoViolation
  /\ policyState.violation = NoViolation

\* a hard stop before the final turn: a path violation is on record
C37_WitnessHardStop ==
  /\ policyState.violation # NoViolation
  /\ policyState.violation.kind = "path"
  /\ policyState.turnIndex < maxTurns - 1

(* ------------------------ claims: phase and exit code at the end ------------------------ *)

\* C38: a run that returned has phase done and exit code 0; a run that threw
\* after the prompt call settled has phase error or aborted and exit code 1; no
\* run that threw, not even one whose session could not be created, has phase
\* done.
C38_PhaseMatchesOutcome ==
  /\ pc = "returned"
       => /\ result.kind = "returned"
          /\ details.phase = "done" /\ details.exitCode = 0
  /\ (pc = "thrown" /\ Decided)
       => /\ result.kind = "thrown"
          /\ details.phase \in {"error", "aborted"} /\ details.exitCode = 1
  /\ pc = "thrown" => details.phase # "done" /\ details.exitCode # 0

\* a cancelled run that had looked at an assistant message threw in phase
\* aborted with exit code 1
C38_Witness ==
  /\ pc = "thrown" /\ Decided
  /\ result = Thrown([type |-> "aborted_by_signal"])
  /\ lastObserved.at # "none"
  /\ details.phase = "aborted" /\ details.exitCode = 1

\* a run returned in phase done with exit code 0
C38_WitnessReturned ==
  /\ pc = "returned"
  /\ details.phase = "done" /\ details.exitCode = 0

(* ------------------------ claims: a signal fired before the session ------------------------ *)

\* the step in which the session has been created and is wired up
BootStep == pc = "start" /\ pc' = "prompting"

\* C39: when the signal has fired by the time the session is created, the step
\* that wires the session up sets the cancellation flag and phase aborted,
\* requests session.abort once, attaches no listener, and still subscribes and
\* issues the prompt. The flag is never reset, and a run that went through the
\* terminal decision with the flag set has thrown, in phase error when a policy
\* violation is on record and in phase aborted otherwise, whatever the session
\* answered in between.
C39_FiredBeforeSession ==
  /\ [][ (BootStep /\ hasSignal /\ signalFired)
           => /\ abortedBySignal'
              /\ details'.phase = "aborted"
              /\ abortCalls'.session = abortCalls.session + 1
              /\ ~resources'.listening
              /\ ~resources.subscribed /\ resources'.subscribed
              /\ resources'.session = "live" ]_vars
  /\ [][ abortedBySignal => abortedBySignal' ]_vars
  /\ []((Decided /\ abortedBySignal)
          => /\ pc = "thrown"
             /\ details.phase = (IF policyState.violation # NoViolation THEN "error"
                                 ELSE "aborted")
             /\ details.exitCode = 1)

\* the signal had fired before the session was created (the session never saw an
\* abort request while running); the session answered with text all the same,
\* and the run threw in phase aborted
C39_Witness ==
  /\ Decided /\ pc = "thrown"
  /\ abortedBySignal /\ ~sessAborting /\ abortCalls.session = 1
  /\ finalText # << >>
  /\ details.phase = "aborted"

\* a cancelled run with a policy violation on record threw in phase error
C39_WitnessViolation ==
  /\ Decided /\ pc = "thrown"
  /\ abortedBySignal /\ abortCalls.session = 1
  /\ policyState.violation # NoViolation
  /\ details.phase = "error"

====
